---------------------------- MODULE Spec2Model ----------------------------
(***************************************************************************)
(* Audio-reactive visualizer pages (spectrum page, multi-view composer,    *)
(* score page): the preview / capture life cycle of each page and the      *)
(* spectrum bar grouping, as state machines translated from the Svelte     *)
(* sources.  Each page is a specification of its own over the variables    *)
(* below; a page's specification leaves the other pages' variables alone.  *)
(***************************************************************************)
EXTENDS Integers, Sequences, FiniteSets, TLC

VARIABLES
  \* ---- spectrum renderer (drawSpectrum / renderSpectrumWithAudioData)
  settings,            \* the page's settings record
  minIndex,            \* first bin of the configured range
  maxIndex,            \* bin after the last one of the configured range
  dataArray,           \* the analyser's byte frequency data, one value per bin
  bars,                \* what the last drawSpectrum call computed, bar by bar
  reads,               \* the indices j of dataArray[j] read by that call
  \* ---- the host: clock, recorders, pending continuations, file system
  now,                 \* the host's clock (AudioContext / Tone time base)
  supported,           \* the mime types MediaRecorder.isTypeSupported accepts
  recorders,           \* every MediaRecorder constructed, by id
  calls,               \* async functions suspended at an await
  rafs,                \* callbacks requestAnimationFrame has pending
  files,               \* the file system: path -> bytes written
  mimeType,            \* the mime type the last capture start negotiated, "" before
  alerts,              \* the message of the last alert() shown, "" before the first
  \* ---- module-level variables of the pages
  mediaRecorder,
  chunks,
  isProcessing,
  isPreviewing,
  isConverting,
  ffmpegInstalled,
  processingProgress,
  startTime,
  previewAnimationId,
  \* ---- score page only
  midiFile,
  midiData,
  midiDuration,
  currentPage,
  totalPages,
  pages,               \* the pages' end times, page by page
  synths,              \* the number of Tone.PolySynth objects alive
  \* ---- Web Audio: the pages that play a decoded file
  contexts,            \* every AudioContext constructed, by id
  sources,             \* every AudioBufferSourceNode created, by id
  audioContext,
  analyser,
  audioDuration,
  \* ---- spectrum page only
  audioFile,
  previewSource,
  \* ---- multi-view composer only
  selectedFile,
  layers,
  nextLayerId,
  selectedLayer,
  globalSettings,
  isPreviewPlaying,
  progress,
  audioSource,
  drawn,               \* the last frame composited: the layer list it saw and
                       \* the layers it painted, in painting order
  loadedFiles,         \* the file list, in loading order
  nextFileId,
  loads,               \* loadFileFromHTMLInput calls waiting for the metadata
  fileInputs,          \* the number of File objects the file dialog has handed over
  \* ---- multi-view composer: the renderers of one layer
  layer,               \* the layer handed to the renderers
  previewDrawing,      \* what renderLayerWithAudioData last drew
  recordingDrawing,    \* what renderLayerWithAudioDataForRecording last drew
  sampleRate,          \* audioContext.sampleRate of the host's contexts
  \* ---- spectrogram page only
  spectrogramData,     \* the frame history, oldest first
  intervals,           \* the timers setInterval has running
  previewIntervalId

barVars == <<minIndex, maxIndex, dataArray, bars, reads>>

hostVars == <<now, supported, recorders, calls, rafs, files, alerts, mimeType>>

pageVars == <<mediaRecorder, chunks, isProcessing, isPreviewing, isConverting,
              ffmpegInstalled, processingProgress, startTime, previewAnimationId>>

scoreVars == <<midiFile, midiData, midiDuration, currentPage, totalPages,
               pages, synths>>

audioVars == <<contexts, sources, audioContext, analyser, audioDuration>>

spectrumVars == <<audioFile, previewSource>>

composerVars == <<selectedFile, layers, nextLayerId, selectedLayer,
                  globalSettings, isPreviewPlaying, progress, audioSource, drawn,
                  loadedFiles, nextFileId, loads, fileInputs>>

renderVars == <<layer, previewDrawing, recordingDrawing, sampleRate>>

spectrogramVars == <<spectrogramData, intervals, previewIntervalId>>

vars == <<settings, barVars, hostVars, pageVars, scoreVars, audioVars,
          spectrumVars, composerVars, renderVars, spectrogramVars>>

\* null of a string-valued variable; a handle (a recorder, an animation frame,
\* an audio node) is a positive number and 0 when the variable is null.
NULL == "null"

(***************************************************************************)
(* Bounds of the model.                                                    *)
(***************************************************************************)
MaxBins == 4         \* frequencyBinCount of the modelled analyser
MaxIndex == 5        \* largest minIndex / maxIndex drawn
MaxBarCount == 4     \* largest settings.barCount drawn

(***************************************************************************)
(* The variables of a page that a specification does not model stay at     *)
(* these values.                                                           *)
(***************************************************************************)
IdleBars ==
  /\ minIndex = 0 /\ maxIndex = 0 /\ dataArray = <<>> /\ bars = <<>> /\ reads = {}

IdleHost ==
  /\ now = 0 /\ supported = {} /\ recorders = <<>> /\ calls = {} /\ rafs = {}
  /\ files = <<>> /\ alerts = "" /\ mimeType = ""

IdlePage ==
  /\ mediaRecorder = 0 /\ chunks = <<>> /\ isProcessing = FALSE
  /\ isPreviewing = FALSE /\ isConverting = FALSE /\ ffmpegInstalled = FALSE
  /\ processingProgress = 0 /\ startTime = 0 /\ previewAnimationId = 0

IdleScore ==
  /\ midiFile = NULL /\ midiData = NULL /\ midiDuration = 0 /\ currentPage = 0
  /\ totalPages = 0 /\ pages = <<>> /\ synths = 0

IdleAudio ==
  /\ contexts = <<>> /\ sources = <<>> /\ audioContext = 0 /\ analyser = 0
  /\ audioDuration = 0

IdleSpectrum ==
  /\ audioFile = NULL /\ previewSource = 0

\* a resolution string `${width}x${height}` is the sequence of its three parts
DefaultGlobalSettings ==
  [aspectRatio |-> "16:9", resolution |-> <<1920, "x", 1080>>,
   exportFormat |-> "mp4", convertAfterRecording |-> TRUE]

NoFrame == [list |-> <<>>, painted |-> <<>>]

IdleComposer ==
  /\ selectedFile = NULL /\ layers = <<>> /\ nextLayerId = 1 /\ selectedLayer = 0
  /\ globalSettings = DefaultGlobalSettings
  /\ isPreviewPlaying = FALSE /\ progress = 0 /\ audioSource = 0
  /\ drawn = NoFrame
  /\ loadedFiles = <<>> /\ nextFileId = 1 /\ loads = {} /\ fileInputs = 0

IdleSpectrogram ==
  /\ spectrogramData = <<>> /\ intervals = {} /\ previewIntervalId = 0

IdleRender ==
  /\ layer = NULL /\ previewDrawing = <<>> /\ recordingDrawing = <<>>
  /\ sampleRate = 0

(***************************************************************************)
(* Spectrum bar grouping: part_000 drawSpectrum, the composer's            *)
(* renderSpectrumWithAudioData and the 3D page's updateBarsFromAudioData   *)
(* share these lines word for word.                                        *)
(***************************************************************************)
Min(a, b) == IF a < b THEN a ELSE b

\* const frequencyRange = maxIndex - minIndex;
frequencyRange(lo, hi) == hi - lo

\* const samplesPerBar = Math.floor(frequencyRange / settings.barCount);
samplesPerBar(lo, hi, barCount) == frequencyRange(lo, hi) \div barCount

\* const startIndex = minIndex + (i * samplesPerBar);
startIndex(i, lo, hi, barCount) == lo + i * samplesPerBar(lo, hi, barCount)

\* const endIndex = Math.min(startIndex + samplesPerBar, maxIndex);
endIndex(i, lo, hi, barCount) ==
  Min(startIndex(i, lo, hi, barCount) + samplesPerBar(lo, hi, barCount), hi)

\* A loop bound one too far: for (j = startIndex; j <= endIndex; j++).
BarReadsInclusive(i, lo, hi, barCount) ==
  { j \in startIndex(i, lo, hi, barCount) .. endIndex(i, lo, hi, barCount) : TRUE }

\* for (let j = startIndex; j < endIndex; j++) sum += dataArray[j];
BarReads(i, lo, hi, barCount) ==
  { j \in startIndex(i, lo, hi, barCount) .. (endIndex(i, lo, hi, barCount) - 1) : TRUE }

\* dataArray[j] of a Uint8Array: the byte, or undefined outside the array.
ByteAt(data, j) == IF j \in DOMAIN data THEN data[j] ELSE 0

RECURSIVE SumOver(_, _)
SumOver(data, js) ==
  IF js = {} THEN 0
  ELSE LET j == CHOOSE x \in js : TRUE
       IN  ByteAt(data, j) + SumOver(data, js \ {j})

\* const average = sum / samplesPerBar;  a JavaScript number: sum / 0 is NaN for
\* sum = 0 and an infinity otherwise, and adding undefined to sum makes it NaN.
Average(sum, divisor, sawUndefined) ==
  [ nan      |-> sawUndefined \/ (divisor = 0 /\ sum = 0),
    infinite |-> ~sawUndefined /\ divisor = 0 /\ sum # 0,
    num      |-> sum,
    den      |-> divisor ]

\* One iteration of the bar loop.
Bar(i, lo, hi, barCount, data) ==
  LET js == BarReads(i, lo, hi, barCount)
      sum == SumOver(data, js)
  IN  [ startIndex |-> startIndex(i, lo, hi, barCount),
        endIndex   |-> endIndex(i, lo, hi, barCount),
        divisor    |-> samplesPerBar(lo, hi, barCount),
        average    |-> Average(sum, samplesPerBar(lo, hi, barCount),
                               \E j \in js : j \notin DOMAIN data) ]

\* The values of the Display Style select; each has a branch in drawSpectrum,
\* and every branch runs the same bar loop.
SpectrumStyles == {"circular", "liner", "normal", "center"}

\* drawSpectrum(minIndex, maxIndex): every bar of the selected style's loop.
drawSpectrum ==
  /\ bars = <<>>
  /\ settings.spectrumStyle \in SpectrumStyles
  /\ bars' = [ k \in 1..settings.barCount |->
                 Bar(k - 1, minIndex, maxIndex, settings.barCount, dataArray) ]
  /\ reads' = UNION { BarReads(k - 1, minIndex, maxIndex, settings.barCount)
                       : k \in 1..settings.barCount }
  /\ UNCHANGED <<settings, minIndex, maxIndex, dataArray, hostVars, pageVars,
                 scoreVars, audioVars, spectrumVars, composerVars,
                 renderVars, spectrogramVars>>

\* The next animation frame: the analyser delivers new data and the bars are
\* computed afresh.
nextFrame ==
  /\ bars # <<>>
  /\ \E d \in [0..(MaxBins - 1) -> {0, 255}] : dataArray' = d
  /\ bars' = <<>>
  /\ reads' = {}
  /\ UNCHANGED <<settings, minIndex, maxIndex, hostVars, pageVars, scoreVars,
                 audioVars, spectrumVars, composerVars, renderVars,
                 spectrogramVars>>

InitBars ==
  /\ IdleRender /\ IdleSpectrogram
  /\ \E bc \in 1..MaxBarCount, st \in SpectrumStyles :
       settings = [ barCount |-> bc, spectrumStyle |-> st ]
  /\ minIndex \in 0..MaxIndex
  /\ maxIndex \in 0..MaxIndex
  /\ dataArray = [ j \in 0..(MaxBins - 1) |-> 255 ]
  /\ bars = <<>>
  /\ reads = {}
  /\ IdleHost /\ IdlePage /\ IdleScore /\ IdleAudio /\ IdleSpectrum
  /\ IdleComposer

NextBars == drawSpectrum \/ nextFrame

SpecBars == InitBars /\ [][NextBars]_vars

(***************************************************************************)
(* The host the pages run on: the clock, MediaRecorder, pending awaits and *)
(* animation frames, the file system behind writeFile and convert_video.   *)
(***************************************************************************)
MaxTime == 3         \* the clock stops advancing here
MaxDuration == 2     \* longest audio / MIDI duration drawn, in clock ticks
MaxCaptures == 2     \* MediaRecorders constructed in one run
MaxChunks == 1       \* timeslice chunks a recorder delivers before its stop
MaxCalls == 2        \* async calls suspended at the same time

MimeTypes == {"video/webm;codecs=vp8,opus", "video/webm", "video/mp4"}

\* The hosts drawn: one that supports every type, one that supports nothing but
\* generic webm, one that supports only mp4, one that supports none.
Hosts == {MimeTypes, {"video/webm"}, {"video/mp4"}, {}}

SavePaths == {"out.webm"}

\* webmPath.replace('.webm', `.${settings.exportFormat}`)
OutputPath(webmPath, format) == IF format = "mp4" THEN "out.mp4" ELSE "out.webm"

AllPaths == SavePaths \cup {"out.mp4"}

NoFile == [exists |-> FALSE, bytes |-> <<>>, converted |-> FALSE]

\* await writeFile(path, bytes)
WriteFile(fs, path, bytes) ==
  [fs EXCEPT ![path] = [exists |-> TRUE, bytes |-> bytes, converted |-> FALSE]]

\* The convert_video command of the backend, which a failed conversion leaves
\* without effect on the files: it writes the output file only when it succeeds.
ConvertVideo(fs, inputPath, outputPath, ok) ==
  IF ok /\ fs[inputPath].exists
    THEN [fs EXCEPT ![outputPath] =
            [exists |-> TRUE, bytes |-> fs[inputPath].bytes, converted |-> TRUE]]
    ELSE fs

\* Math.min(100, (elapsed / duration) * 100), rounded down to a whole percent.
Progress(elapsed, duration) == Min(100, (elapsed * 100) \div duration)

\* A call suspended at an await: the function, the await it is at, and the
\* locals its continuation reads.
Call(id, fn, pc, rec, blob, path) ==
  [id |-> id, fn |-> fn, pc |-> pc, rec |-> rec, blob |-> blob, path |-> path,
   ctx |-> 0, stopped |-> FALSE]

\* Handles are opaque: a new one is the smallest not in use.
FreshId(used) == CHOOSE n \in 1..(Cardinality(used) + 1) :
                   n \notin used /\ \A m \in 1..(n - 1) : m \in used

FreshCallId == FreshId({c.id : c \in calls})

\* new MediaRecorder(stream, {mimeType}); recorder.start(100)
NewRecorder == [state |-> "recording", stopping |-> FALSE, delivered |-> 0]

\* recorder.stop(): the recorder turns inactive at once; its last
\* dataavailable and its stop event are delivered later.
StopRecorder(recs, r) ==
  IF r # 0 /\ recs[r].state = "recording"
    THEN [recs EXCEPT ![r].state = "inactive", ![r].stopping = TRUE]
    ELSE recs

\* The clock advances.
Tick ==
  /\ now < MaxTime
  /\ now' = now + 1
  /\ UNCHANGED <<settings, barVars, supported, recorders, calls, rafs, files,
                 alerts, mimeType, pageVars, scoreVars, audioVars,
                 spectrumVars, composerVars, renderVars, spectrogramVars>>

(***************************************************************************)
(* Score page (routes/midi/score).                                         *)
(***************************************************************************)

\* processMidiData: the measures (one clock tick each) grouped into pages of
\* settings.measuresPerPage; a page's endTime is its last measure's endTime.
ProcessMidiData(duration, measuresPerPage) ==
  LET totalMeasures == duration
      n == (totalMeasures + measuresPerPage - 1) \div measuresPerPage
  IN  [ p \in 1..n |-> Min(p * measuresPerPage, totalMeasures) ]

\* onMount: ffmpegInstalled = await invoke('check_ffmpeg_installed'), false
\* when the call fails.
Score_onMount ==
  /\ \E c \in calls :
       /\ c.fn = "onMount"
       /\ calls' = calls \ {c}
  /\ ffmpegInstalled' \in BOOLEAN
  /\ UNCHANGED <<settings, barVars, now, supported, recorders, rafs, files,
                 alerts, mimeType, mediaRecorder, chunks, isProcessing,
                 isPreviewing, isConverting, processingProgress, startTime,
                 previewAnimationId, scoreVars, audioVars, spectrumVars,
                 composerVars, renderVars, spectrogramVars>>

\* handleFileChange up to its await: the file input is disabled while
\* processing or previewing.
Score_handleFileChange ==
  /\ ~(isProcessing \/ isPreviewing)
  /\ Cardinality(calls) < MaxCalls
  /\ midiFile' = "file"
  /\ calls' = calls \cup {Call(FreshCallId, "handleFileChange", "read", 0, <<>>, NULL)}
  /\ UNCHANGED <<settings, barVars, now, supported, recorders, rafs, files,
                 alerts, mimeType, pageVars, midiData, midiDuration,
                 currentPage, totalPages, pages, synths, audioVars,
                 spectrumVars, composerVars, renderVars, spectrogramVars>>

\* handleFileChange after midiFile.arrayBuffer(): the file parses, or new
\* Midi() throws and the file is dropped.
Score_fileRead ==
  \E c \in calls :
    /\ c.fn = "handleFileChange"
    /\ calls' = calls \ {c}
    /\ \/ \E d \in 1..MaxDuration :
            /\ midiData' = "midi"
            /\ midiDuration' = d
            /\ pages' = ProcessMidiData(d, settings.measuresPerPage)
            /\ totalPages' = Len(pages')
            /\ currentPage' = 0
            /\ UNCHANGED <<midiFile, alerts>>
       \/ /\ alerts' = "Failed to parse MIDI file"
          /\ midiFile' = NULL
          /\ midiData' = NULL
          /\ UNCHANGED <<midiDuration, pages, totalPages, currentPage>>
    /\ UNCHANGED <<settings, barVars, now, supported, recorders, rafs, files,
                   mimeType, pageVars, synths, audioVars, spectrumVars,
                   composerVars, renderVars, spectrogramVars>>

\* startProcessing up to await Tone.start().
Score_startProcessing ==
  /\ ~(isProcessing \/ isPreviewing \/ isConverting \/ midiFile = NULL)
  /\ IF midiData = NULL
       THEN /\ alerts' = "Please select a MIDI file."
            /\ UNCHANGED <<recorders, calls, mediaRecorder, chunks, isProcessing,
                           processingProgress, currentPage, mimeType>>
       ELSE /\ mimeType' = IF "video/webm;codecs=vp8,opus" \in supported
                              THEN "video/webm;codecs=vp8,opus" ELSE "video/webm"
            /\ processingProgress' = 0
            /\ currentPage' = 0
            /\ IF mimeType' \in supported
                     THEN /\ Len(recorders) < MaxCaptures
                          /\ Cardinality(calls) < MaxCalls
                          /\ isProcessing' = TRUE
                          /\ recorders' = Append(recorders, NewRecorder)
                          /\ mediaRecorder' = Len(recorders) + 1
                          /\ chunks' = <<>>
                          /\ calls' = calls \cup
                               {Call(FreshCallId, "startProcessing", "Tone.start",
                                     Len(recorders) + 1, <<>>, NULL)}
                          /\ UNCHANGED alerts
                     ELSE \* new MediaRecorder throws: the catch block
                          /\ alerts' = "An error occurred during processing."
                          /\ isProcessing' = FALSE
                          /\ UNCHANGED <<recorders, calls, mediaRecorder, chunks>>
  /\ UNCHANGED <<settings, barVars, now, supported, rafs, files,
                 isPreviewing, isConverting, ffmpegInstalled, startTime,
                 previewAnimationId, midiFile, midiData, midiDuration,
                 totalPages, pages, synths, audioVars, spectrumVars,
                 composerVars, renderVars, spectrogramVars>>

\* startProcessing after Tone.start(): the synth, startTime and the first
\* requestAnimationFrame(animate).
Score_processingStarted ==
  \E c \in calls :
    /\ c.fn = "startProcessing"
    /\ calls' = calls \ {c}
    /\ synths' = synths + 1
    /\ startTime' = now
    /\ rafs' = rafs \cup {[id |-> FreshId({r.id : r \in rafs}), fn |-> "animate"]}
    /\ UNCHANGED <<settings, barVars, now, supported, recorders, files,
                   alerts, mimeType, mediaRecorder, chunks, isProcessing,
                   isPreviewing, isConverting, ffmpegInstalled,
                   processingProgress, previewAnimationId, midiFile,
                   midiData, midiDuration, currentPage, totalPages, pages,
                   audioVars, spectrumVars, composerVars, renderVars,
                   spectrogramVars>>

\* One call of animate; `frame` says whether more than 33 ms passed since the
\* last frame drawn.
Score_animate ==
  \E r \in rafs, frame \in BOOLEAN :
    /\ r.fn = "animate"
    /\ IF ~isProcessing
         THEN /\ rafs' = rafs \ {r}
              /\ UNCHANGED <<recorders, isProcessing, processingProgress, currentPage,
                             synths>>
         ELSE LET currentPlayTime == now - startTime
                  turned == IF frame /\ settings.autoPageTurn
                                    /\ currentPage < totalPages - 1
                                    /\ currentPlayTime >= pages[currentPage + 1]
                              THEN currentPage + 1 ELSE currentPage
                  shown == IF frame THEN Progress(currentPlayTime, midiDuration)
                           ELSE processingProgress
              IN  /\ currentPage' = turned
                  /\ IF now - startTime < midiDuration
                       THEN /\ rafs' = (rafs \ {r}) \cup {[id |-> r.id, fn |-> "animate"]}
                            /\ processingProgress' = shown
                            /\ UNCHANGED <<recorders, isProcessing, synths>>
                       ELSE \* Finished
                            /\ rafs' = rafs \ {r}
                            /\ recorders' = StopRecorder(recorders, mediaRecorder)
                            /\ synths' = synths - 1
                            /\ isProcessing' = FALSE
                            /\ processingProgress' = 100
    /\ UNCHANGED <<settings, barVars, now, supported, calls, files, alerts,
                   mimeType, mediaRecorder, chunks, isPreviewing,
                   isConverting, ffmpegInstalled, startTime,
                   previewAnimationId, midiFile, midiData, midiDuration,
                   totalPages, pages, audioVars, spectrumVars, composerVars,
                   renderVars, spectrogramVars>>

\* mediaRecorder.ondataavailable: a timeslice chunk of a recording recorder.
Score_ondataavailable ==
  \E r \in DOMAIN recorders :
    /\ recorders[r].state = "recording"
    /\ recorders[r].delivered < MaxChunks
    /\ recorders' = [recorders EXCEPT ![r].delivered = @ + 1]
    /\ chunks' = Append(chunks, <<r, recorders[r].delivered + 1>>)
    /\ UNCHANGED <<settings, barVars, now, supported, calls, rafs, files,
                   alerts, mimeType, mediaRecorder, isProcessing,
                   isPreviewing, isConverting, ffmpegInstalled,
                   processingProgress, startTime, previewAnimationId,
                   scoreVars, audioVars, spectrumVars, composerVars,
                   renderVars, spectrogramVars>>

\* A stopped recorder delivers its last chunk and fires onstop: createVideo up
\* to await blob.arrayBuffer().
Score_onstop ==
  \E r \in DOMAIN recorders :
    /\ recorders[r].stopping
    /\ Cardinality(calls) < MaxCalls
    /\ recorders' = [recorders EXCEPT ![r].stopping = FALSE, ![r].delivered = @ + 1]
    /\ LET last == Append(chunks, <<r, recorders[r].delivered + 1>>)
       IN  /\ chunks' = last
           /\ calls' = calls \cup
                {Call(FreshCallId, "createVideo", "blob.arrayBuffer", r, last, NULL)}
    /\ UNCHANGED <<settings, barVars, now, supported, rafs, files, alerts,
                   mimeType, mediaRecorder, isProcessing, isPreviewing,
                   isConverting, ffmpegInstalled, processingProgress,
                   startTime, previewAnimationId, scoreVars, audioVars,
                   spectrumVars, composerVars, renderVars, spectrogramVars>>

\* createVideo after blob.arrayBuffer(): the save dialog opens.
Score_createVideo_buffer ==
  \E c \in calls :
    /\ c.fn = "createVideo" /\ c.pc = "blob.arrayBuffer"
    /\ calls' = (calls \ {c}) \cup {[c EXCEPT !.pc = "save"]}
    /\ UNCHANGED <<settings, barVars, now, supported, recorders, rafs, files,
                   alerts, mimeType, pageVars, scoreVars, audioVars,
                   spectrumVars, composerVars, renderVars, spectrogramVars>>

\* createVideo after save(): a path, or null when the dialog is cancelled.
Score_createVideo_save ==
  \E c \in calls :
    /\ c.fn = "createVideo" /\ c.pc = "save"
    /\ \/ \E path \in SavePaths :
            /\ calls' = (calls \ {c}) \cup {[c EXCEPT !.pc = "writeFile", !.path = path]}
            /\ UNCHANGED chunks
       \/ /\ calls' = calls \ {c}
          /\ chunks' = <<>>
    /\ UNCHANGED <<settings, barVars, now, supported, recorders, rafs, files,
                   alerts, mimeType, mediaRecorder, isProcessing,
                   isPreviewing, isConverting, ffmpegInstalled,
                   processingProgress, startTime, previewAnimationId,
                   scoreVars, audioVars, spectrumVars, composerVars,
                   renderVars, spectrogramVars>>

\* createVideo after writeFile(): the file is on disk and convertVideo starts,
\* or the video is reported saved; a failed write is reported.
Score_createVideo_writeFile ==
  \E c \in calls :
    /\ c.fn = "createVideo" /\ c.pc = "writeFile"
    /\ \/ /\ files' = WriteFile(files, c.path, c.blob)
          /\ IF settings.convertAfterRecording /\ ffmpegInstalled
                  /\ settings.exportFormat # "webm"
               THEN /\ isConverting' = TRUE
                    /\ calls' = (calls \ {c}) \cup {[c EXCEPT !.pc = "convert_video"]}
                    /\ UNCHANGED <<alerts, chunks>>
               ELSE /\ alerts' = "Video saved successfully!"
                    /\ calls' = calls \ {c}
                    /\ chunks' = <<>>
                    /\ UNCHANGED isConverting
       \/ /\ alerts' = "Failed to save video."
          /\ calls' = calls \ {c}
          /\ chunks' = <<>>
          /\ UNCHANGED <<files, isConverting>>
    /\ UNCHANGED <<settings, barVars, now, supported, recorders, rafs,
                   mimeType, mediaRecorder, isProcessing, isPreviewing,
                   ffmpegInstalled, processingProgress, startTime,
                   previewAnimationId, scoreVars, audioVars, spectrumVars,
                   composerVars, renderVars, spectrogramVars>>

\* convertVideo after invoke('convert_video') resolved.
Score_convertVideo_resolved ==
  \E c \in calls :
    /\ c.fn = "createVideo" /\ c.pc = "convert_video"
    /\ files' = ConvertVideo(files, c.path, OutputPath(c.path, settings.exportFormat), TRUE)
    /\ alerts' = "Video converted and saved"
    /\ isConverting' = FALSE
    /\ calls' = calls \ {c}
    /\ chunks' = <<>>
    /\ UNCHANGED <<settings, barVars, now, supported, recorders, rafs,
                   mimeType, mediaRecorder, isProcessing, isPreviewing,
                   ffmpegInstalled, processingProgress, startTime,
                   previewAnimationId, scoreVars, audioVars, spectrumVars,
                   composerVars, renderVars, spectrogramVars>>

\* What convertVideo's catch block does to the files: nothing.
Score_convertVideo_catch(fs, webmPath) == fs

\* convertVideo after invoke('convert_video') rejected.
Score_convertVideo_rejected ==
  \E c \in calls :
    /\ c.fn = "createVideo" /\ c.pc = "convert_video"
    /\ files' = Score_convertVideo_catch(
                  ConvertVideo(files, c.path, OutputPath(c.path, settings.exportFormat),
                               FALSE), c.path)
    /\ alerts' = "Conversion failed"
    /\ isConverting' = FALSE
    /\ calls' = calls \ {c}
    /\ chunks' = <<>>
    /\ UNCHANGED <<settings, barVars, now, supported, recorders, rafs,
                   mimeType, mediaRecorder, isProcessing, isPreviewing,
                   ffmpegInstalled, processingProgress, startTime,
                   previewAnimationId, scoreVars, audioVars, spectrumVars,
                   composerVars, renderVars, spectrogramVars>>

InitScore ==
  /\ IdleRender /\ IdleSpectrogram
  /\ settings = [ exportFormat |-> "mp4", convertAfterRecording |-> TRUE,
                  measuresPerPage |-> 4, autoPageTurn |-> TRUE ]
  /\ now = 0
  /\ supported \in Hosts
  /\ recorders = <<>>
  /\ calls = {Call(1, "onMount", "check_ffmpeg_installed", 0, <<>>, NULL)}
  /\ rafs = {}
  /\ files = [p \in AllPaths |-> NoFile]
  /\ alerts = "" /\ mimeType = ""
  /\ IdlePage /\ IdleScore /\ IdleBars /\ IdleAudio /\ IdleSpectrum
  /\ IdleComposer

NextScore ==
  \/ Tick
  \/ Score_onMount
  \/ Score_handleFileChange
  \/ Score_fileRead
  \/ Score_startProcessing
  \/ Score_processingStarted
  \/ Score_animate
  \/ Score_ondataavailable
  \/ Score_onstop
  \/ Score_createVideo_buffer
  \/ Score_createVideo_save
  \/ Score_createVideo_writeFile
  \/ Score_convertVideo_resolved
  \/ Score_convertVideo_rejected

SpecScore == InitScore /\ [][NextScore]_vars

(***************************************************************************)
(* Web Audio, as the pages use it.                                         *)
(***************************************************************************)
MaxContexts == 2     \* AudioContexts constructed in one run

\* new AudioContext(): its currentTime starts at 0 and follows the clock
\* until the context is closed.
NewContext == [t0 |-> now, closed |-> FALSE, closedAt |-> 0]

\* audioContext.currentTime
CurrentTime(c) ==
  (IF contexts[c].closed THEN contexts[c].closedAt ELSE now) - contexts[c].t0

\* audioContext.close()
CloseContext(ctxs, c) ==
  IF c # 0 /\ ~ctxs[c].closed
    THEN [ctxs EXCEPT ![c].closed = TRUE, ![c].closedAt = now]
    ELSE ctxs

\* audioContext.createBufferSource() with its buffer, connect() and start(0):
\* fn is the function that created it; stopped tells that stopPreview has
\* returned since the startPreview call that created it began.
NewSource(ctx, fn, loop, duration, state, stopped) ==
  [ctx |-> ctx, fn |-> fn, loop |-> loop, duration |-> duration,
   connected |-> TRUE, state |-> state, startedAt |-> now, stopped |-> stopped]

\* source.stop(); source.disconnect()
StopSource(srcs, s) ==
  IF s # 0 THEN [srcs EXCEPT ![s].state = "stopped", ![s].connected = FALSE]
           ELSE srcs

\* A source that is started, connected to an analyser and rendered by a
\* running context.
Active(s) ==
  /\ sources[s].state = "playing"
  /\ sources[s].connected
  /\ ~contexts[sources[s].ctx].closed

\* requestAnimationFrame(fn): src is the capture's source a capture loop
\* belongs to; stopped tells that stopPreview has returned since the preview
\* of the loop began; late tells that the callback was scheduled by a frame
\* that ran after that (preview loop) or after the capture's audio had ended
\* (capture loop).
FreshRafId(pending) == FreshId({r.id : r \in pending} \cup {previewAnimationId})

Raf(id, fn, src, stopped, late) ==
  [id |-> id, fn |-> fn, src |-> src, stopped |-> stopped, late |-> late]

\* What a stopPreview that returns leaves marked: the startPreview calls
\* still awaiting, the frames still pending and the sources created so far.
MarkStopped(S, fn) == {IF x.fn = fn THEN [x EXCEPT !.stopped = TRUE] ELSE x : x \in S}

MarkStoppedSources(srcs, fn) ==
  [s \in DOMAIN srcs |-> IF srcs[s].fn = fn THEN [srcs[s] EXCEPT !.stopped = TRUE]
                                            ELSE srcs[s]]

\* The mime type negotiation of processAudio / exportComposition.
NegotiateMimeType ==
  IF "video/webm;codecs=vp8,opus" \in supported THEN "video/webm;codecs=vp8,opus"
  ELSE IF "video/webm" \in supported THEN "video/webm"
  ELSE "video/mp4"

(***************************************************************************)
(* Spectrum page (part_000): preview and capture life cycle.               *)
(***************************************************************************)

\* onMount: ffmpegInstalled = await invoke('check_ffmpeg_installed'), false
\* when the call fails.
Spectrum_onMount ==
  /\ \E c \in calls :
       /\ c.fn = "onMount"
       /\ calls' = calls \ {c}
  /\ ffmpegInstalled' \in BOOLEAN
  /\ UNCHANGED <<settings, barVars, now, supported, recorders, rafs, files,
                 alerts, mimeType, mediaRecorder, chunks, isProcessing,
                 isPreviewing, isConverting, processingProgress, startTime,
                 previewAnimationId, scoreVars, audioVars, spectrumVars,
                 composerVars, renderVars, spectrogramVars>>

\* handleFileChange: a file is chosen, or the chooser is left without one.
Spectrum_handleFileChange ==
  /\ \E f \in {"file", NULL} :
       /\ f # audioFile
       /\ audioFile' = f
  /\ UNCHANGED <<settings, barVars, hostVars, pageVars, scoreVars, audioVars,
                 previewSource, composerVars, renderVars, spectrogramVars>>

\* startPreview up to await audioFile.arrayBuffer(); the Preview button is
\* shown while not previewing and disabled while processing or without a file.
Spectrum_startPreview ==
  /\ ~isPreviewing
  /\ ~(isProcessing \/ audioFile = NULL)
  /\ Len(contexts) < MaxContexts
  /\ Cardinality(calls) < MaxCalls
  /\ isPreviewing' = TRUE
  /\ contexts' = Append(contexts, NewContext)
  /\ audioContext' = Len(contexts) + 1
  /\ analyser' = Len(contexts) + 1
  /\ calls' = calls \cup {Call(FreshCallId, "startPreview", "arrayBuffer", 0, <<>>, NULL)}
  /\ UNCHANGED <<settings, barVars, now, supported, recorders, rafs, files,
                 alerts, mimeType, mediaRecorder, chunks, isProcessing,
                 isConverting, ffmpegInstalled, processingProgress,
                 startTime, previewAnimationId, scoreVars, sources,
                 audioDuration, spectrumVars, composerVars, renderVars,
                 spectrogramVars>>

\* startPreview after arrayBuffer(): audioContext.decodeAudioData(...) on the
\* module's audioContext, a TypeError when that is null by now.
Spectrum_startPreview_arrayBuffer ==
  \E c \in calls :
    /\ c.fn = "startPreview" /\ c.pc = "arrayBuffer"
    /\ IF audioContext = 0
         THEN calls' = calls \ {c}
         ELSE calls' = (calls \ {c}) \cup {[c EXCEPT !.pc = "decodeAudioData"]}
    /\ UNCHANGED <<settings, barVars, now, supported, recorders, rafs, files,
                   alerts, mimeType, pageVars, scoreVars, audioVars,
                   spectrumVars, composerVars, renderVars, spectrogramVars>>

\* startPreview after decodeAudioData(): the decode rejects, or the source is
\* created on the module's audioContext, connected to the module's analyser
\* and started, and draw() runs its first frame.
Spectrum_startPreview_decoded ==
  \E c \in calls, ok \in BOOLEAN, d \in 1..MaxDuration :
    /\ c.fn = "startPreview" /\ c.pc = "decodeAudioData"
    /\ calls' = calls \ {c}
    /\ IF ~ok \/ audioContext = 0
         THEN UNCHANGED <<sources, previewSource, rafs, previewAnimationId>>
         ELSE /\ previewSource' = Len(sources) + 1
              /\ IF analyser = 0
                   THEN /\ sources' = Append(sources,
                              [NewSource(audioContext, "startPreview", TRUE, d,
                                         "created", c.stopped)
                                 EXCEPT !.connected = FALSE])
                        /\ UNCHANGED <<rafs, previewAnimationId>>
                   ELSE /\ sources' = Append(sources,
                              NewSource(audioContext, "startPreview", TRUE, d,
                                        "playing", c.stopped))
                        /\ IF isPreviewing
                             THEN /\ previewAnimationId' = FreshRafId(rafs)
                                  /\ rafs' = rafs \cup
                                       {Raf(FreshRafId(rafs), "previewDraw", 0,
                                            c.stopped, c.stopped)}
                             ELSE UNCHANGED <<rafs, previewAnimationId>>
    /\ UNCHANGED <<settings, barVars, now, supported, recorders, files,
                   alerts, mimeType, mediaRecorder, chunks, isProcessing,
                   isPreviewing, isConverting, ffmpegInstalled,
                   processingProgress, startTime, scoreVars, contexts,
                   audioContext, analyser, audioDuration, audioFile,
                   composerVars, renderVars, spectrogramVars>>

\* The preview's draw, called by requestAnimationFrame.
Spectrum_previewDraw ==
  \E r \in rafs :
    /\ r.fn = "previewDraw"
    /\ IF analyser = 0 \/ ~isPreviewing
         THEN /\ rafs' = rafs \ {r}
              /\ UNCHANGED previewAnimationId
         ELSE /\ previewAnimationId' = FreshRafId(rafs \ {r})
              /\ rafs' = (rafs \ {r}) \cup
                   {Raf(FreshRafId(rafs \ {r}), "previewDraw", 0, r.stopped, r.stopped)}
    /\ UNCHANGED <<settings, barVars, now, supported, recorders, calls,
                   files, alerts, mimeType, mediaRecorder, chunks,
                   isProcessing, isPreviewing, isConverting, ffmpegInstalled,
                   processingProgress, startTime, scoreVars, audioVars,
                   spectrumVars, composerVars, renderVars, spectrogramVars>>

\* stopPreview; the Stop Preview button is shown while previewing.
Spectrum_stopPreview ==
  /\ isPreviewing
  /\ isPreviewing' = FALSE
  /\ rafs' = MarkStopped({r \in rafs : r.id # previewAnimationId}, "previewDraw")
  /\ previewAnimationId' = 0
  /\ sources' = MarkStoppedSources(StopSource(sources, previewSource), "startPreview")
  /\ previewSource' = 0
  /\ analyser' = 0
  /\ contexts' = CloseContext(contexts, audioContext)
  /\ audioContext' = 0
  /\ calls' = MarkStopped(calls, "startPreview")
  /\ UNCHANGED <<settings, barVars, now, supported, recorders, files, alerts,
                 mimeType, mediaRecorder, chunks, isProcessing, isConverting,
                 ffmpegInstalled, processingProgress, startTime, scoreVars,
                 audioDuration, audioFile, composerVars, renderVars,
                 spectrogramVars>>

\* processAudio up to await audioFile.arrayBuffer(); the button is disabled
\* while processing, previewing, converting or without a file.
Spectrum_processAudio ==
  /\ ~(isProcessing \/ isPreviewing \/ isConverting \/ audioFile = NULL)
  /\ Len(contexts) < MaxContexts
  /\ Cardinality(calls) < MaxCalls
  /\ isProcessing' = TRUE
  /\ processingProgress' = 0
  /\ contexts' = Append(contexts, NewContext)
  /\ audioContext' = Len(contexts) + 1
  /\ analyser' = Len(contexts) + 1
  /\ calls' = calls \cup {Call(FreshCallId, "processAudio", "arrayBuffer", 0, <<>>, NULL)}
  /\ UNCHANGED <<settings, barVars, now, supported, recorders, rafs, files,
                 alerts, mimeType, mediaRecorder, chunks, isPreviewing,
                 isConverting, ffmpegInstalled, startTime,
                 previewAnimationId, scoreVars, sources, audioDuration,
                 spectrumVars, composerVars, renderVars, spectrogramVars>>

\* processAudio after arrayBuffer(): audioContext.decodeAudioData(...).
Spectrum_processAudio_arrayBuffer ==
  \E c \in calls :
    /\ c.fn = "processAudio" /\ c.pc = "arrayBuffer"
    /\ IF audioContext = 0
         THEN calls' = calls \ {c}
         ELSE calls' = (calls \ {c}) \cup {[c EXCEPT !.pc = "decodeAudioData"]}
    /\ UNCHANGED <<settings, barVars, now, supported, recorders, rafs, files,
                   alerts, mimeType, pageVars, scoreVars, audioVars,
                   spectrumVars, composerVars, renderVars, spectrogramVars>>

\* processAudio after decodeAudioData(): the decode rejects and the call ends
\* there; or the source is created and connected, the mime type negotiated,
\* and new MediaRecorder throws for a type the host does not support and the
\* call ends there; or the recorder and the source are started and draw()
\* runs its first frame.
Spectrum_processAudio_decoded ==
  \E c \in calls, ok \in BOOLEAN, d \in 1..MaxDuration :
    /\ c.fn = "processAudio" /\ c.pc = "decodeAudioData"
    /\ calls' = calls \ {c}
    /\ IF ~ok \/ audioContext = 0
         THEN UNCHANGED <<sources, audioDuration, startTime, recorders, mediaRecorder,
                          chunks, processingProgress, rafs, mimeType>>
         ELSE /\ audioDuration' = d
              /\ startTime' = CurrentTime(audioContext)
              /\ mimeType' = NegotiateMimeType
              /\ IF mimeType' \notin supported
                   THEN /\ sources' = Append(sources,
                              NewSource(audioContext, "processAudio", FALSE, d,
                                        "created", FALSE))
                        /\ UNCHANGED <<recorders, mediaRecorder, chunks,
                                       processingProgress, rafs>>
                   ELSE /\ Len(recorders) < MaxCaptures
                        /\ recorders' = Append(recorders, NewRecorder)
                        /\ mediaRecorder' = Len(recorders) + 1
                        /\ chunks' = <<>>
                        /\ sources' = Append(sources,
                              NewSource(audioContext, "processAudio", FALSE, d,
                                        "playing", FALSE))
                        /\ IF analyser = 0
                             THEN UNCHANGED <<processingProgress, rafs>>
                             ELSE /\ processingProgress' =
                                       Progress(CurrentTime(audioContext) - startTime', d)
                                  /\ rafs' = rafs \cup
                                       {Raf(FreshRafId(rafs), "captureDraw",
                                            Len(sources) + 1, FALSE, FALSE)}
    /\ UNCHANGED <<settings, barVars, now, supported, files, alerts,
                   isProcessing, isPreviewing, isConverting, ffmpegInstalled,
                   previewAnimationId, scoreVars, contexts, audioContext,
                   analyser, spectrumVars, composerVars, renderVars,
                   spectrogramVars>>

\* The capture's draw, called by requestAnimationFrame.
Spectrum_captureDraw ==
  \E r \in rafs :
    /\ r.fn = "captureDraw"
    /\ IF analyser = 0
         THEN /\ rafs' = rafs \ {r}
              /\ UNCHANGED processingProgress
         ELSE /\ processingProgress' =
                   IF audioContext # 0 /\ audioDuration > 0
                     THEN Progress(CurrentTime(audioContext) - startTime, audioDuration)
                     ELSE processingProgress
              /\ rafs' = (rafs \ {r}) \cup
                   {Raf(FreshRafId(rafs \ {r}), "captureDraw", r.src, FALSE,
                        sources[r.src].state = "ended")}
    /\ UNCHANGED <<settings, barVars, now, supported, recorders, calls,
                   files, alerts, mimeType, mediaRecorder, chunks,
                   isProcessing, isPreviewing, isConverting, ffmpegInstalled,
                   startTime, previewAnimationId, scoreVars, audioVars,
                   spectrumVars, composerVars, renderVars, spectrogramVars>>

\* source.onended: the capture's audio has played to its end.
Spectrum_onended ==
  \E s \in DOMAIN sources :
    /\ sources[s].fn = "processAudio"
    /\ Active(s)
    /\ now >= sources[s].startedAt + sources[s].duration
    /\ processingProgress' = 100
    /\ recorders' = StopRecorder(recorders, mediaRecorder)
    /\ sources' = [sources EXCEPT ![s].state = "ended", ![s].connected = FALSE]
    /\ UNCHANGED <<settings, barVars, now, supported, calls, rafs, files,
                   alerts, mimeType, mediaRecorder, chunks, isProcessing,
                   isPreviewing, isConverting, ffmpegInstalled, startTime,
                   previewAnimationId, scoreVars, contexts, audioContext,
                   analyser, audioDuration, spectrumVars, composerVars,
                   renderVars, spectrogramVars>>

\* mediaRecorder.ondataavailable: a timeslice chunk of a recording recorder.
Spectrum_ondataavailable ==
  \E r \in DOMAIN recorders :
    /\ recorders[r].state = "recording"
    /\ recorders[r].delivered < MaxChunks
    /\ recorders' = [recorders EXCEPT ![r].delivered = @ + 1]
    /\ chunks' = Append(chunks, <<r, recorders[r].delivered + 1>>)
    /\ UNCHANGED <<settings, barVars, now, supported, calls, rafs, files,
                   alerts, mimeType, mediaRecorder, isProcessing,
                   isPreviewing, isConverting, ffmpegInstalled,
                   processingProgress, startTime, previewAnimationId,
                   scoreVars, audioVars, spectrumVars, composerVars,
                   renderVars, spectrogramVars>>

\* A stopped recorder delivers its last chunk and fires onstop: createVideo up
\* to await save().
Spectrum_onstop ==
  \E r \in DOMAIN recorders :
    /\ recorders[r].stopping
    /\ Cardinality(calls) < MaxCalls
    /\ recorders' = [recorders EXCEPT ![r].stopping = FALSE, ![r].delivered = @ + 1]
    /\ LET last == Append(chunks, <<r, recorders[r].delivered + 1>>)
       IN  /\ chunks' = last
           /\ calls' = calls \cup {Call(FreshCallId, "createVideo", "save", r, last, NULL)}
    /\ UNCHANGED <<settings, barVars, now, supported, rafs, files, alerts,
                   mimeType, mediaRecorder, isProcessing, isPreviewing,
                   isConverting, ffmpegInstalled, processingProgress,
                   startTime, previewAnimationId, scoreVars, audioVars,
                   spectrumVars, composerVars, renderVars, spectrogramVars>>

\* createVideo after save(): null when the dialog is cancelled, and the
\* resources are cleaned up; or a path, and blob.arrayBuffer() is awaited.
Spectrum_createVideo_save ==
  \E c \in calls :
    /\ c.fn = "createVideo" /\ c.pc = "save"
    /\ \/ \E path \in SavePaths :
            /\ calls' = (calls \ {c}) \cup
                 {[c EXCEPT !.pc = "blob.arrayBuffer", !.path = path]}
            /\ UNCHANGED <<contexts, chunks, isProcessing>>
       \/ /\ calls' = calls \ {c}
          /\ contexts' = CloseContext(contexts, audioContext)
          /\ chunks' = <<>>
          /\ isProcessing' = FALSE
    /\ UNCHANGED <<settings, barVars, now, supported, recorders, rafs, files,
                   alerts, mimeType, mediaRecorder, isPreviewing,
                   isConverting, ffmpegInstalled, processingProgress,
                   startTime, previewAnimationId, scoreVars, sources,
                   audioContext, analyser, audioDuration, spectrumVars,
                   composerVars, renderVars, spectrogramVars>>

\* createVideo after blob.arrayBuffer(): writeFile is awaited.
Spectrum_createVideo_buffer ==
  \E c \in calls :
    /\ c.fn = "createVideo" /\ c.pc = "blob.arrayBuffer"
    /\ calls' = (calls \ {c}) \cup {[c EXCEPT !.pc = "writeFile"]}
    /\ UNCHANGED <<settings, barVars, now, supported, recorders, rafs, files,
                   alerts, mimeType, pageVars, scoreVars, audioVars,
                   spectrumVars, composerVars, renderVars, spectrogramVars>>

\* createVideo after writeFile(): the file is on disk and reported saved, and
\* the conversion starts when it is enabled, FFmpeg is installed and the
\* format is not webm; a failed write is reported.  Without a conversion the
\* finally block cleans up.
Spectrum_createVideo_writeFile ==
  \E c \in calls :
    /\ c.fn = "createVideo" /\ c.pc = "writeFile"
    /\ \/ /\ files' = WriteFile(files, c.path, c.blob)
          /\ alerts' = "WebM video saved successfully"
          /\ IF settings.convertAfterRecording /\ ffmpegInstalled
                  /\ settings.exportFormat # "webm"
               THEN /\ isConverting' = TRUE
                    /\ calls' = (calls \ {c}) \cup {[c EXCEPT !.pc = "convert_video"]}
                    /\ UNCHANGED <<contexts, chunks, isProcessing>>
               ELSE /\ calls' = calls \ {c}
                    /\ contexts' = CloseContext(contexts, audioContext)
                    /\ chunks' = <<>>
                    /\ isProcessing' = FALSE
                    /\ UNCHANGED isConverting
       \/ /\ alerts' = "Error saving video"
          /\ calls' = calls \ {c}
          /\ contexts' = CloseContext(contexts, audioContext)
          /\ chunks' = <<>>
          /\ isProcessing' = FALSE
          /\ UNCHANGED <<files, isConverting>>
    /\ UNCHANGED <<settings, barVars, now, supported, recorders, rafs,
                   mimeType, mediaRecorder, isPreviewing, ffmpegInstalled,
                   processingProgress, startTime, previewAnimationId,
                   scoreVars, sources, audioContext, analyser, audioDuration,
                   spectrumVars, composerVars, renderVars, spectrogramVars>>

\* createVideo after invoke('convert_video'): resolved or rejected, the
\* outcome is reported and the finally blocks clean up.
Spectrum_createVideo_converted ==
  \E c \in calls, ok \in BOOLEAN :
    /\ c.fn = "createVideo" /\ c.pc = "convert_video"
    /\ files' = ConvertVideo(files, c.path, OutputPath(c.path, settings.exportFormat), ok)
    /\ alerts' = IF ok THEN "Converted" ELSE "Conversion failed"
    /\ isConverting' = FALSE
    /\ calls' = calls \ {c}
    /\ contexts' = CloseContext(contexts, audioContext)
    /\ chunks' = <<>>
    /\ isProcessing' = FALSE
    /\ UNCHANGED <<settings, barVars, now, supported, recorders, rafs,
                   mimeType, mediaRecorder, isPreviewing, ffmpegInstalled,
                   processingProgress, startTime, previewAnimationId,
                   scoreVars, sources, audioContext, analyser, audioDuration,
                   spectrumVars, composerVars, renderVars, spectrogramVars>>

InitSpectrum ==
  /\ IdleRender /\ IdleSpectrogram
  /\ settings = [ exportFormat |-> "mp4", convertAfterRecording |-> TRUE ]
  /\ now = 0
  /\ supported \in Hosts
  /\ recorders = <<>>
  /\ calls = {Call(1, "onMount", "check_ffmpeg_installed", 0, <<>>, NULL)}
  /\ rafs = {}
  /\ files = [p \in AllPaths |-> NoFile]
  /\ alerts = "" /\ mimeType = ""
  /\ IdlePage /\ IdleAudio /\ IdleSpectrum /\ IdleScore /\ IdleBars
  /\ IdleComposer

NextSpectrum ==
  \/ Tick
  \/ Spectrum_onMount
  \/ Spectrum_handleFileChange
  \/ Spectrum_startPreview
  \/ Spectrum_startPreview_arrayBuffer
  \/ Spectrum_startPreview_decoded
  \/ Spectrum_previewDraw
  \/ Spectrum_stopPreview
  \/ Spectrum_processAudio
  \/ Spectrum_processAudio_arrayBuffer
  \/ Spectrum_processAudio_decoded
  \/ Spectrum_captureDraw
  \/ Spectrum_onended
  \/ Spectrum_ondataavailable
  \/ Spectrum_onstop
  \/ Spectrum_createVideo_save
  \/ Spectrum_createVideo_buffer
  \/ Spectrum_createVideo_writeFile
  \/ Spectrum_createVideo_converted

SpecSpectrum == InitSpectrum /\ [][NextSpectrum]_vars

(***************************************************************************)
(* Multi-view composer (routes/multi-view-composer): layers.               *)
(***************************************************************************)
MaxRafs == 2         \* animation frames pending when the aspect ratio is changed
MaxLayers == 3       \* longest layer list built
MaxLayerId == 4      \* nextLayerId stops here

LayerTypes == {"spectrum", "waveform", "spectrogram"}

\* const aspectRatios = [ { value, label, width, height }, ... ]
aspectRatios ==
  [r \in {"16:9", "4:3", "1:1", "21:9", "9:16"} |->
     CASE r = "16:9" -> [width |-> 1920, height |-> 1080]
       [] r = "4:3" -> [width |-> 1024, height |-> 768]
       [] r = "1:1" -> [width |-> 1080, height |-> 1080]
       [] r = "21:9" -> [width |-> 2560, height |-> 1080]
       [] r = "9:16" -> [width |-> 1080, height |-> 1920]]

\* calculateDefaultLayerSize(modeType), in percent of the canvas
calculateDefaultLayerSize(modeType) ==
  CASE modeType = "spectrum" -> [width |-> 40, height |-> 30]
    [] modeType = "waveform" -> [width |-> 50, height |-> 20]
    [] modeType = "spectrogram" -> [width |-> 60, height |-> 40]
    [] modeType = "3d" -> [width |-> 35, height |-> 35]
    [] modeType = "pianoroll" -> [width |-> 45, height |-> 25]
    [] modeType = "score" -> [width |-> 40, height |-> 30]
    [] OTHER -> [width |-> 30, height |-> 30]

\* calculateLayerSize(): the canvas of the aspect ratio fitted into a preview
\* area of 800 x 600, in percent; the quotients are kept in whole percents
\* (56.25 is 56, 42.1875 is 42), which leaves their sign as it is.
calculateLayerSize(gs) ==
  LET ratio == aspectRatios[gs.aspectRatio]
      previewWidth == 800
      previewHeight == 600
  IN IF ratio.width * previewHeight > previewWidth * ratio.height
       THEN [width |-> 100,
             height |-> (100 * previewWidth * ratio.height)
                          \div (previewHeight * ratio.width)]
       ELSE [height |-> 100,
             width |-> (100 * ratio.width * previewHeight)
                         \div (ratio.height * previewWidth)]

\* The layer object addLayer / addLayerToTop build: `layer-${nextLayerId++}`
\* is the number n of "layer-n", and 0 where the code has null.
NewLayer(id, type, size) ==
  [id |-> id, type |-> type, visible |-> TRUE,
   width |-> size.width, height |-> size.height, assignedFileId |-> NULL]

\* layers.forEach(layer => { if (!layer.visible) return; ... render ... }):
\* the ids of the layers painted, in painting order; a layer painted later
\* is painted over the ones before it.
RECURSIVE PaintLayers(_)
PaintLayers(ls) ==
  IF ls = <<>> THEN <<>>
  ELSE IF Head(ls).visible THEN <<Head(ls).id>> \o PaintLayers(Tail(ls))
       ELSE PaintLayers(Tail(ls))

\* One frame of the preview's draw or of the capture's renderFrame.
Frame(ls) == [list |-> ls, painted |-> PaintLayers(ls)]

\* The layers a frame gets through when a renderer throws.  The spectrogram
\* renderers call createImageData(width, height), which throws IndexSizeError
\* for a rectangle of zero width or height; the first visible spectrogram
\* layer is the one that can throw, and no renderer call nor the frame loop
\* is inside a try block.
ThrowingFrames(ls) ==
  {Frame(SubSeq(ls, 1, k - 1)) :
     k \in {i \in DOMAIN ls :
              /\ ls[i].visible /\ ls[i].type = "spectrogram"
              /\ \A j \in 1..(i - 1) : ~(ls[j].visible /\ ls[j].type = "spectrogram")}}

\* addLayer numbering the layer by the length of the list instead of the
\* counter: an id comes back after a removal.
Composer_addLayerByLength ==
  /\ Len(layers) < MaxLayers /\ nextLayerId <= MaxLayerId
  /\ \E type \in LayerTypes :
       layers' = Append(layers, NewLayer(Len(layers) + 1, type,
                                         calculateDefaultLayerSize(type)))
  /\ nextLayerId' = nextLayerId + 1
  /\ selectedLayer' = Len(layers) + 1
  /\ UNCHANGED <<settings, barVars, hostVars, pageVars, scoreVars, audioVars,
                 spectrumVars, selectedFile, globalSettings,
                 isPreviewPlaying, progress, audioSource, drawn, loadedFiles,
                 nextFileId, loads, fileInputs, renderVars, spectrogramVars>>

\* addLayer(type), from handleDrop: the layer is appended and selected.
Composer_addLayer ==
  /\ Len(layers) < MaxLayers /\ nextLayerId <= MaxLayerId
  /\ \E type \in LayerTypes :
       layers' = Append(layers, NewLayer(nextLayerId, type,
                                         calculateDefaultLayerSize(type)))
  /\ nextLayerId' = nextLayerId + 1
  /\ selectedLayer' = nextLayerId
  /\ UNCHANGED <<settings, barVars, hostVars, pageVars, scoreVars, audioVars,
                 spectrumVars, selectedFile, globalSettings,
                 isPreviewPlaying, progress, audioSource, drawn, loadedFiles,
                 nextFileId, loads, fileInputs, renderVars, spectrogramVars>>

\* addLayerToTop(modeId), from handleModeClick: the layer is put in front of
\* the list and selected.
Composer_addLayerToTop ==
  /\ Len(layers) < MaxLayers /\ nextLayerId <= MaxLayerId
  /\ \E modeId \in LayerTypes :
       layers' = <<NewLayer(nextLayerId, modeId,
                            calculateLayerSize(globalSettings))>> \o layers
  /\ nextLayerId' = nextLayerId + 1
  /\ selectedLayer' = nextLayerId
  /\ UNCHANGED <<settings, barVars, hostVars, pageVars, scoreVars, audioVars,
                 spectrumVars, selectedFile, globalSettings,
                 isPreviewPlaying, progress, audioSource, drawn, loadedFiles,
                 nextFileId, loads, fileInputs, renderVars, spectrogramVars>>

\* removeLayer without the reset of selectedLayer
Composer_removeLayerKeepsSelection ==
  /\ \E k \in DOMAIN layers :
       layers' = SelectSeq(layers, LAMBDA l : l.id # layers[k].id)
  /\ UNCHANGED <<settings, barVars, hostVars, pageVars, scoreVars, audioVars,
                 spectrumVars, selectedFile, nextLayerId, selectedLayer,
                 globalSettings, isPreviewPlaying, progress, audioSource,
                 drawn, loadedFiles, nextFileId, loads, fileInputs,
                 renderVars, spectrogramVars>>

\* removeLayer(layerId)
Composer_removeLayer ==
  /\ \E k \in DOMAIN layers :
       /\ layers' = SelectSeq(layers, LAMBDA l : l.id # layers[k].id)
       /\ selectedLayer' = IF selectedLayer = layers[k].id THEN 0 ELSE selectedLayer
  /\ UNCHANGED <<settings, barVars, hostVars, pageVars, scoreVars, audioVars,
                 spectrumVars, selectedFile, nextLayerId, globalSettings,
                 isPreviewPlaying, progress, audioSource, drawn, loadedFiles,
                 nextFileId, loads, fileInputs, renderVars, spectrogramVars>>

\* updateLayerProperty(layerId, 'visible', !layer.visible)
Composer_toggleVisible ==
  /\ \E k \in DOMAIN layers :
       layers' = [layers EXCEPT ![k].visible = ~@]
  /\ UNCHANGED <<settings, barVars, hostVars, pageVars, scoreVars, audioVars,
                 spectrumVars, selectedFile, nextLayerId, selectedLayer,
                 globalSettings, isPreviewPlaying, progress, audioSource,
                 drawn, loadedFiles, nextFileId, loads, fileInputs,
                 renderVars, spectrogramVars>>

(***************************************************************************)
(* Multi-view composer: preview and capture life cycle.                    *)
(***************************************************************************)

\* startPreview up to await selectedFile.arrayBuffer(); the button starts the
\* preview while none is playing and is disabled while processing, without a
\* file or without a layer.
Composer_startPreview ==
  /\ ~isPreviewPlaying
  /\ ~(selectedFile = NULL \/ Len(layers) = 0 \/ isProcessing)
  /\ Len(contexts) < MaxContexts
  /\ Cardinality(calls) < MaxCalls
  /\ isPreviewPlaying' = TRUE
  /\ contexts' = Append(contexts, NewContext)
  /\ audioContext' = Len(contexts) + 1
  /\ analyser' = Len(contexts) + 1
  /\ calls' = calls \cup {Call(FreshCallId, "startPreview", "arrayBuffer", 0, <<>>, NULL)}
  /\ UNCHANGED <<settings, barVars, now, supported, recorders, rafs, files,
                 alerts, mimeType, pageVars, scoreVars, sources,
                 audioDuration, spectrumVars, selectedFile, layers,
                 nextLayerId, selectedLayer, globalSettings, progress,
                 audioSource, drawn, loadedFiles, nextFileId, loads,
                 fileInputs, renderVars, spectrogramVars>>

\* startPreview after arrayBuffer(): audioContext.decodeAudioData(...) on the
\* module's audioContext; when that is null by now the TypeError is caught.
Composer_startPreview_arrayBuffer ==
  \E c \in calls :
    /\ c.fn = "startPreview" /\ c.pc = "arrayBuffer"
    /\ IF audioContext = 0
         THEN /\ calls' = calls \ {c}
              /\ alerts' = "Error starting preview"
              /\ isPreviewPlaying' = FALSE
         ELSE /\ calls' = (calls \ {c}) \cup {[c EXCEPT !.pc = "decodeAudioData"]}
              /\ UNCHANGED <<alerts, isPreviewPlaying>>
    /\ UNCHANGED <<settings, barVars, now, supported, recorders, rafs, files,
                   mimeType, pageVars, scoreVars, audioVars, spectrumVars,
                   selectedFile, layers, nextLayerId, selectedLayer,
                   globalSettings, progress, audioSource, drawn, loadedFiles,
                   nextFileId, loads, fileInputs, renderVars, spectrogramVars>>

\* startPreview after decodeAudioData(): a rejected decode or a null
\* audioContext is caught; otherwise the source is created on the module's
\* audioContext, connected to the module's analyser and started, and
\* startVisualization() runs the first frame of draw.
Composer_startPreview_decoded ==
  \E c \in calls, ok \in BOOLEAN, d \in 1..MaxDuration :
    /\ c.fn = "startPreview" /\ c.pc = "decodeAudioData"
    /\ calls' = calls \ {c}
    /\ IF ~ok \/ audioContext = 0
         THEN /\ alerts' = "Error starting preview"
              /\ isPreviewPlaying' = FALSE
              /\ UNCHANGED <<sources, audioSource, rafs, previewAnimationId, drawn>>
         ELSE /\ audioSource' = Len(sources) + 1
              /\ IF analyser = 0
                   THEN /\ sources' = Append(sources,
                              [NewSource(audioContext, "startPreview", TRUE, d,
                                         "created", c.stopped)
                                 EXCEPT !.connected = FALSE])
                        /\ alerts' = "Error starting preview"
                        /\ isPreviewPlaying' = FALSE
                        /\ UNCHANGED <<rafs, previewAnimationId, drawn>>
                   ELSE /\ sources' = Append(sources,
                              NewSource(audioContext, "startPreview", TRUE, d,
                                        "playing", c.stopped))
                        /\ UNCHANGED <<alerts, isPreviewPlaying>>
                        /\ IF isPreviewPlaying /\ ~isProcessing
                             THEN /\ drawn' = Frame(layers)
                                  /\ previewAnimationId' = FreshRafId(rafs)
                                  /\ rafs' = rafs \cup
                                       {Raf(FreshRafId(rafs), "previewDraw", 0,
                                            c.stopped, c.stopped)}
                             ELSE UNCHANGED <<rafs, previewAnimationId, drawn>>
    /\ UNCHANGED <<settings, barVars, now, supported, recorders, files,
                   mimeType, mediaRecorder, chunks, isProcessing,
                   isPreviewing, isConverting, ffmpegInstalled,
                   processingProgress, startTime, scoreVars, contexts,
                   audioContext, analyser, audioDuration, spectrumVars,
                   selectedFile, layers, nextLayerId, selectedLayer,
                   globalSettings, progress, loadedFiles, nextFileId, loads,
                   fileInputs, renderVars, spectrogramVars>>

\* startVisualization's draw, called by requestAnimationFrame.
Composer_previewDraw ==
  \E r \in rafs :
    /\ r.fn = "previewDraw"
    /\ IF ~isPreviewPlaying \/ analyser = 0 \/ isProcessing
         THEN /\ rafs' = rafs \ {r}
              /\ UNCHANGED <<previewAnimationId, drawn>>
         ELSE \/ /\ drawn' = Frame(layers)
                 /\ previewAnimationId' = FreshRafId(rafs \ {r})
                 /\ rafs' = (rafs \ {r}) \cup
                      {Raf(FreshRafId(rafs \ {r}), "previewDraw", 0, r.stopped,
                           r.stopped)}
              \/ \* a renderer throws: draw ends before requestAnimationFrame
                 /\ drawn' \in ThrowingFrames(layers)
                 /\ rafs' = rafs \ {r}
                 /\ UNCHANGED previewAnimationId
    /\ UNCHANGED <<settings, barVars, now, supported, recorders, calls,
                   files, alerts, mimeType, mediaRecorder, chunks,
                   isProcessing, isPreviewing, isConverting, ffmpegInstalled,
                   processingProgress, startTime, scoreVars, audioVars,
                   spectrumVars, selectedFile, layers, nextLayerId,
                   selectedLayer, globalSettings, isPreviewPlaying, progress,
                   audioSource, loadedFiles, nextFileId, loads, fileInputs,
                   renderVars, spectrogramVars>>

\* Global Settings, <select bind:value={globalSettings.aspectRatio}>: the
\* new value invalidates canvasDimensions, and `$: if (canvasDimensions)
\* updateCanvasSize()` resizes the preview canvas and, while a preview is
\* playing, calls startVisualization(), which runs the first frame of a new
\* draw.
Composer_updateCanvasSize ==
  /\ Cardinality(rafs) < MaxRafs
  /\ \E r \in {"16:9", "4:3"} :
       /\ r # globalSettings.aspectRatio
       /\ globalSettings' = [globalSettings EXCEPT !.aspectRatio = r]
  /\ IF analyser # 0 /\ isPreviewPlaying /\ ~isProcessing
       THEN /\ drawn' = Frame(layers)
            /\ previewAnimationId' = FreshRafId(rafs)
            /\ rafs' = rafs \cup
                 {Raf(FreshRafId(rafs), "previewDraw", 0, FALSE, FALSE)}
       ELSE UNCHANGED <<rafs, previewAnimationId, drawn>>
  /\ UNCHANGED <<settings, barVars, now, supported, recorders, calls, files,
                 alerts, mimeType, mediaRecorder, chunks, isProcessing,
                 isPreviewing, isConverting, ffmpegInstalled,
                 processingProgress, startTime, scoreVars, audioVars,
                 spectrumVars, selectedFile, layers, nextLayerId,
                 selectedLayer, isPreviewPlaying, progress, audioSource,
                 loadedFiles, nextFileId, loads, fileInputs, renderVars,
                 spectrogramVars>>

\* stopPreview, from the button, which stops the preview while one is playing
\* and is disabled while processing, without a file or without a layer.
Composer_stopPreview ==
  /\ isPreviewPlaying
  /\ ~(selectedFile = NULL \/ Len(layers) = 0 \/ isProcessing)
  /\ isPreviewPlaying' = FALSE
  /\ rafs' = MarkStopped({r \in rafs : r.id # previewAnimationId}, "previewDraw")
  /\ previewAnimationId' = 0
  /\ sources' = MarkStoppedSources(StopSource(sources, audioSource), "startPreview")
  /\ audioSource' = 0
  /\ contexts' = CloseContext(contexts, audioContext)
  /\ audioContext' = 0
  /\ analyser' = 0
  /\ calls' = MarkStopped(calls, "startPreview")
  /\ UNCHANGED <<settings, barVars, now, supported, recorders, files, alerts,
                 mimeType, mediaRecorder, chunks, isProcessing, isPreviewing,
                 isConverting, ffmpegInstalled, processingProgress,
                 startTime, scoreVars, audioDuration, spectrumVars,
                 selectedFile, layers, nextLayerId, selectedLayer,
                 globalSettings, progress, drawn, loadedFiles, nextFileId,
                 loads, fileInputs, renderVars, spectrogramVars>>

\* exportComposition up to await selectedFile.arrayBuffer(): a playing
\* preview is stopped, and the capture gets an audioContext and an analyser
\* of its own (locals of the call).
Composer_exportComposition ==
  /\ ~(selectedFile = NULL \/ Len(layers) = 0 \/ isProcessing)
  /\ Len(contexts) < MaxContexts
  /\ Cardinality(calls) < MaxCalls
  /\ isProcessing' = TRUE
  /\ progress' = 0
  /\ IF isPreviewPlaying
       THEN /\ isPreviewPlaying' = FALSE
            /\ rafs' = MarkStopped({r \in rafs : r.id # previewAnimationId}, "previewDraw")
            /\ previewAnimationId' = 0
            /\ sources' = MarkStoppedSources(StopSource(sources, audioSource),
                                             "startPreview")
            /\ audioSource' = 0
            /\ contexts' = Append(CloseContext(contexts, audioContext), NewContext)
            /\ audioContext' = 0
            /\ analyser' = 0
            /\ calls' = MarkStopped(calls, "startPreview") \cup
                 {[Call(FreshCallId, "exportComposition", "arrayBuffer", 0, <<>>, NULL)
                     EXCEPT !.ctx = Len(contexts) + 1]}
       ELSE /\ contexts' = Append(contexts, NewContext)
            /\ calls' = calls \cup
                 {[Call(FreshCallId, "exportComposition", "arrayBuffer", 0, <<>>, NULL)
                     EXCEPT !.ctx = Len(contexts) + 1]}
            /\ UNCHANGED <<isPreviewPlaying, rafs, previewAnimationId, sources,
                           audioSource, audioContext, analyser>>
  /\ UNCHANGED <<settings, barVars, now, supported, recorders, files, alerts,
                 mimeType, mediaRecorder, chunks, isPreviewing, isConverting,
                 ffmpegInstalled, processingProgress, startTime, scoreVars,
                 audioDuration, spectrumVars, selectedFile, layers,
                 nextLayerId, selectedLayer, globalSettings, drawn,
                 loadedFiles, nextFileId, loads, fileInputs, renderVars,
                 spectrogramVars>>

\* exportComposition after arrayBuffer(): decodeAudioData on its own context.
Composer_exportComposition_arrayBuffer ==
  \E c \in calls :
    /\ c.fn = "exportComposition" /\ c.pc = "arrayBuffer"
    /\ calls' = (calls \ {c}) \cup {[c EXCEPT !.pc = "decodeAudioData"]}
    /\ UNCHANGED <<settings, barVars, now, supported, recorders, rafs, files,
                   alerts, mimeType, pageVars, scoreVars, audioVars,
                   spectrumVars, composerVars, renderVars, spectrogramVars>>

\* exportComposition after decodeAudioData(): a rejected decode, or a
\* MediaRecorder that cannot be constructed for the negotiated mime type, is
\* caught: alert, isProcessing = false.  Otherwise the recorder and the
\* source are started and renderFrame() runs its first frame.
Composer_exportComposition_decoded ==
  \E c \in calls, ok \in BOOLEAN, d \in 1..MaxDuration :
    /\ c.fn = "exportComposition" /\ c.pc = "decodeAudioData"
    /\ calls' = calls \ {c}
    /\ IF ~ok
         THEN /\ alerts' = "Error exporting composition"
              /\ isProcessing' = FALSE
              /\ UNCHANGED <<sources, audioDuration, startTime, recorders,
                             mediaRecorder, chunks, progress, rafs, drawn, mimeType>>
         ELSE /\ audioDuration' = d
              /\ startTime' = CurrentTime(c.ctx)
              /\ mimeType' = NegotiateMimeType
              /\ IF mimeType' \notin supported
                   THEN /\ sources' = Append(sources,
                              NewSource(c.ctx, "exportComposition", FALSE, d,
                                        "created", FALSE))
                        /\ alerts' = "Error exporting composition"
                        /\ isProcessing' = FALSE
                        /\ UNCHANGED <<recorders, mediaRecorder, chunks, progress,
                                       rafs, drawn>>
                   ELSE /\ Len(recorders) < MaxCaptures
                        /\ recorders' = Append(recorders, NewRecorder)
                        /\ mediaRecorder' = Len(recorders) + 1
                        /\ chunks' = <<>>
                        /\ sources' = Append(sources,
                              NewSource(c.ctx, "exportComposition", FALSE, d,
                                        "playing", FALSE))
                        /\ UNCHANGED <<alerts, isProcessing>>
                        /\ IF ~isProcessing
                             THEN UNCHANGED <<progress, rafs, drawn>>
                             ELSE /\ drawn' = Frame(layers)
                                  /\ progress' =
                                       Progress(CurrentTime(c.ctx) - startTime', d)
                                  /\ rafs' = rafs \cup
                                       {Raf(FreshRafId(rafs), "renderFrame",
                                            Len(sources) + 1, FALSE, FALSE)}
    /\ UNCHANGED <<settings, barVars, now, supported, files, isPreviewing,
                   isConverting, ffmpegInstalled, processingProgress,
                   previewAnimationId, scoreVars, contexts, audioContext,
                   analyser, spectrumVars, selectedFile, layers, nextLayerId,
                   selectedLayer, globalSettings, isPreviewPlaying,
                   audioSource, loadedFiles, nextFileId, loads, fileInputs,
                   renderVars, spectrogramVars>>

\* The capture's renderFrame, called by requestAnimationFrame: it reads the
\* capture's own analyser and context, and the module's audioDuration and
\* startTime.
Composer_renderFrame ==
  \E r \in rafs :
    /\ r.fn = "renderFrame"
    /\ IF ~isProcessing
         THEN /\ rafs' = rafs \ {r}
              /\ UNCHANGED <<progress, drawn>>
         ELSE \/ /\ drawn' = Frame(layers)
                 /\ progress' =
                      IF audioDuration > 0
                        THEN Progress(CurrentTime(sources[r.src].ctx) - startTime,
                                      audioDuration)
                        ELSE progress
                 /\ rafs' = (rafs \ {r}) \cup
                      {Raf(FreshRafId(rafs \ {r}), "renderFrame", r.src, FALSE,
                           sources[r.src].state = "ended")}
              \/ \* a renderer throws: renderFrame ends before the progress
                 \* update and before requestAnimationFrame
                 /\ drawn' \in ThrowingFrames(layers)
                 /\ rafs' = rafs \ {r}
                 /\ UNCHANGED progress
    /\ UNCHANGED <<settings, barVars, now, supported, recorders, calls,
                   files, alerts, mimeType, pageVars, scoreVars, audioVars,
                   spectrumVars, selectedFile, layers, nextLayerId,
                   selectedLayer, globalSettings, isPreviewPlaying,
                   audioSource, loadedFiles, nextFileId, loads, fileInputs,
                   renderVars, spectrogramVars>>

\* audioSource.onended: the capture's audio has played to its end.
Composer_onended ==
  \E s \in DOMAIN sources :
    /\ sources[s].fn = "exportComposition"
    /\ Active(s)
    /\ now >= sources[s].startedAt + sources[s].duration
    /\ progress' = 100
    /\ recorders' = StopRecorder(recorders, mediaRecorder)
    /\ sources' = [sources EXCEPT ![s].state = "ended", ![s].connected = FALSE]
    /\ UNCHANGED <<settings, barVars, now, supported, calls, rafs, files,
                   alerts, mimeType, pageVars, scoreVars, contexts,
                   audioContext, analyser, audioDuration, spectrumVars,
                   selectedFile, layers, nextLayerId, selectedLayer,
                   globalSettings, isPreviewPlaying, audioSource, drawn,
                   loadedFiles, nextFileId, loads, fileInputs, renderVars,
                   spectrogramVars>>

\* mediaRecorder.ondataavailable: a timeslice chunk of a recording recorder.
Composer_ondataavailable ==
  \E r \in DOMAIN recorders :
    /\ recorders[r].state = "recording"
    /\ recorders[r].delivered < MaxChunks
    /\ recorders' = [recorders EXCEPT ![r].delivered = @ + 1]
    /\ chunks' = Append(chunks, <<r, recorders[r].delivered + 1>>)
    /\ UNCHANGED <<settings, barVars, now, supported, calls, rafs, files,
                   alerts, mimeType, mediaRecorder, isProcessing,
                   isPreviewing, isConverting, ffmpegInstalled,
                   processingProgress, startTime, previewAnimationId,
                   scoreVars, audioVars, spectrumVars, composerVars,
                   renderVars, spectrogramVars>>

\* A stopped recorder delivers its last chunk and fires onstop:
\* createVideoFile up to await save().
Composer_onstop ==
  \E r \in DOMAIN recorders :
    /\ recorders[r].stopping
    /\ Cardinality(calls) < MaxCalls
    /\ recorders' = [recorders EXCEPT ![r].stopping = FALSE, ![r].delivered = @ + 1]
    /\ LET last == Append(chunks, <<r, recorders[r].delivered + 1>>)
       IN  /\ chunks' = last
           /\ calls' = calls \cup
                {Call(FreshCallId, "createVideoFile", "save", r, last, NULL)}
    /\ UNCHANGED <<settings, barVars, now, supported, rafs, files, alerts,
                   mimeType, mediaRecorder, isProcessing, isPreviewing,
                   isConverting, ffmpegInstalled, processingProgress,
                   startTime, previewAnimationId, scoreVars, audioVars,
                   spectrumVars, composerVars, renderVars, spectrogramVars>>

\* createVideoFile after save(): null when the dialog is cancelled, and the
\* finally block cleans up; or a path, and blob.arrayBuffer() is awaited.
Composer_createVideoFile_save ==
  \E c \in calls :
    /\ c.fn = "createVideoFile" /\ c.pc = "save"
    /\ \/ \E path \in SavePaths :
            /\ calls' = (calls \ {c}) \cup
                 {[c EXCEPT !.pc = "blob.arrayBuffer", !.path = path]}
            /\ UNCHANGED <<chunks, isProcessing, progress, isPreviewPlaying>>
       \/ /\ calls' = calls \ {c}
          /\ chunks' = <<>>
          /\ isProcessing' = FALSE
          /\ progress' = 0
          /\ isPreviewPlaying' = FALSE
    /\ UNCHANGED <<settings, barVars, now, supported, recorders, rafs, files,
                   alerts, mimeType, mediaRecorder, isPreviewing,
                   isConverting, ffmpegInstalled, processingProgress,
                   startTime, previewAnimationId, scoreVars, audioVars,
                   spectrumVars, selectedFile, layers, nextLayerId,
                   selectedLayer, globalSettings, audioSource, drawn,
                   loadedFiles, nextFileId, loads, fileInputs, renderVars,
                   spectrogramVars>>

\* createVideoFile after blob.arrayBuffer(): writeFile is awaited.
Composer_createVideoFile_buffer ==
  \E c \in calls :
    /\ c.fn = "createVideoFile" /\ c.pc = "blob.arrayBuffer"
    /\ calls' = (calls \ {c}) \cup {[c EXCEPT !.pc = "writeFile"]}
    /\ UNCHANGED <<settings, barVars, now, supported, recorders, rafs, files,
                   alerts, mimeType, pageVars, scoreVars, audioVars,
                   spectrumVars, composerVars, renderVars, spectrogramVars>>

\* createVideoFile after writeFile(): the file is on disk and reported saved,
\* and the conversion starts when it is enabled and the format is not webm;
\* a failed write is reported.  Without a conversion the finally block
\* cleans up.
Composer_createVideoFile_writeFile ==
  \E c \in calls :
    /\ c.fn = "createVideoFile" /\ c.pc = "writeFile"
    /\ \/ /\ files' = WriteFile(files, c.path, c.blob)
          /\ alerts' = "WebM video saved successfully"
          /\ IF globalSettings.convertAfterRecording
                  /\ globalSettings.exportFormat # "webm"
               THEN /\ calls' = (calls \ {c}) \cup {[c EXCEPT !.pc = "convert_video"]}
                    /\ UNCHANGED <<chunks, isProcessing, progress, isPreviewPlaying>>
               ELSE /\ calls' = calls \ {c}
                    /\ chunks' = <<>>
                    /\ isProcessing' = FALSE
                    /\ progress' = 0
                    /\ isPreviewPlaying' = FALSE
       \/ /\ alerts' = "Error saving video"
          /\ calls' = calls \ {c}
          /\ chunks' = <<>>
          /\ isProcessing' = FALSE
          /\ progress' = 0
          /\ isPreviewPlaying' = FALSE
          /\ UNCHANGED files
    /\ UNCHANGED <<settings, barVars, now, supported, recorders, rafs,
                   mimeType, mediaRecorder, isPreviewing, isConverting,
                   ffmpegInstalled, processingProgress, startTime,
                   previewAnimationId, scoreVars, audioVars, spectrumVars,
                   selectedFile, layers, nextLayerId, selectedLayer,
                   globalSettings, audioSource, drawn, loadedFiles,
                   nextFileId, loads, fileInputs, renderVars, spectrogramVars>>

\* A catch block that removes the file whose conversion failed.
Composer_createVideoFile_catchRemoves(fs, webmPath) ==
  [fs EXCEPT ![webmPath] = NoFile]

\* What createVideoFile's inner catch block does to the files: nothing.
Composer_createVideoFile_catch(fs, webmPath) == fs

\* createVideoFile after invoke('convert_video'): resolved or rejected, the
\* outcome is reported and the finally block cleans up.
Composer_createVideoFile_converted ==
  \E c \in calls, ok \in BOOLEAN :
    /\ c.fn = "createVideoFile" /\ c.pc = "convert_video"
    /\ LET out == OutputPath(c.path, globalSettings.exportFormat)
       IN  files' = IF ok THEN ConvertVideo(files, c.path, out, TRUE)
                    ELSE Composer_createVideoFile_catch(
                           ConvertVideo(files, c.path, out, FALSE), c.path)
    /\ alerts' = IF ok THEN "Converted" ELSE "Conversion failed"
    /\ calls' = calls \ {c}
    /\ chunks' = <<>>
    /\ isProcessing' = FALSE
    /\ progress' = 0
    /\ isPreviewPlaying' = FALSE
    /\ UNCHANGED <<settings, barVars, now, supported, recorders, rafs,
                   mimeType, mediaRecorder, isPreviewing, isConverting,
                   ffmpegInstalled, processingProgress, startTime,
                   previewAnimationId, scoreVars, audioVars, spectrumVars,
                   selectedFile, layers, nextLayerId, selectedLayer,
                   globalSettings, audioSource, drawn, loadedFiles,
                   nextFileId, loads, fileInputs, renderVars, spectrogramVars>>

\* The composer with a file selected and one layer added.
InitComposer ==
  /\ IdleRender /\ IdleSpectrogram
  /\ settings = <<>>
  /\ now = 0
  /\ supported \in Hosts
  /\ recorders = <<>>
  /\ calls = {}
  /\ rafs = {}
  /\ files = [p \in AllPaths |-> NoFile]
  /\ alerts = "" /\ mimeType = ""
  /\ selectedFile = "file"
  /\ loadedFiles = <<[id |-> "file-1", type |-> "audio", file |-> "file"]>>
  /\ nextFileId = 2 /\ loads = {} /\ fileInputs = 1
  /\ layers = <<NewLayer(1, "spectrum", calculateDefaultLayerSize("spectrum"))>>
  /\ nextLayerId = 2
  /\ selectedLayer = 1
  /\ globalSettings = DefaultGlobalSettings
  /\ isPreviewPlaying = FALSE /\ progress = 0 /\ audioSource = 0 /\ drawn = NoFrame
  /\ IdlePage /\ IdleAudio /\ IdleSpectrum /\ IdleScore /\ IdleBars

NextComposer ==
  \/ Tick
  \/ Composer_startPreview
  \/ Composer_startPreview_arrayBuffer
  \/ Composer_startPreview_decoded
  \/ Composer_previewDraw
  \/ Composer_stopPreview
  \/ Composer_exportComposition
  \/ Composer_exportComposition_arrayBuffer
  \/ Composer_exportComposition_decoded
  \/ Composer_renderFrame
  \/ Composer_onended
  \/ Composer_ondataavailable
  \/ Composer_onstop
  \/ Composer_createVideoFile_save
  \/ Composer_createVideoFile_buffer
  \/ Composer_createVideoFile_writeFile
  \/ Composer_createVideoFile_converted

SpecComposer == InitComposer /\ [][NextComposer]_vars

\* The composer's preview alone: it is started and stopped, and the aspect
\* ratio is changed, in any order.
NextPreview ==
  \/ Composer_startPreview
  \/ Composer_startPreview_arrayBuffer
  \/ Composer_startPreview_decoded
  \/ Composer_previewDraw
  \/ Composer_stopPreview
  \/ Composer_updateCanvasSize

SpecPreview == InitComposer /\ [][NextPreview]_vars

\* The composer while a preview is playing, or while a capture is recording,
\* with one layer; the layers are edited while the frames are drawn.
InitLayers ==
  /\ IdleRender /\ IdleSpectrogram
  /\ settings = <<>>
  /\ now = 0
  /\ supported = MimeTypes
  /\ calls = {}
  /\ files = [p \in AllPaths |-> NoFile]
  /\ alerts = "" /\ mimeType = ""
  /\ selectedFile = "file"
  /\ loadedFiles = <<[id |-> "file-1", type |-> "audio", file |-> "file"]>>
  /\ nextFileId = 2 /\ loads = {} /\ fileInputs = 1
  /\ layers = <<NewLayer(1, "spectrum", calculateDefaultLayerSize("spectrum"))>>
  /\ nextLayerId = 2
  /\ selectedLayer = 1
  /\ globalSettings = DefaultGlobalSettings
  /\ drawn = Frame(layers)
  /\ contexts = <<NewContext>>
  /\ chunks = <<>> /\ isPreviewing = FALSE /\ isConverting = FALSE
  /\ ffmpegInstalled = FALSE /\ processingProgress = 0 /\ startTime = 0
  /\ progress = 0
  /\ \/ /\ isPreviewPlaying = TRUE /\ isProcessing = FALSE
        /\ audioContext = 1 /\ analyser = 1 /\ audioSource = 1 /\ audioDuration = 0
        /\ sources = <<NewSource(1, "startPreview", TRUE, MaxDuration, "playing", FALSE)>>
        /\ rafs = {Raf(1, "previewDraw", 0, FALSE, FALSE)}
        /\ previewAnimationId = 1
        /\ recorders = <<>> /\ mediaRecorder = 0
     \/ /\ isPreviewPlaying = FALSE /\ isProcessing = TRUE
        /\ audioContext = 0 /\ analyser = 0 /\ audioSource = 0
        /\ audioDuration = MaxDuration
        /\ sources = <<NewSource(1, "exportComposition", FALSE, MaxDuration,
                                 "playing", FALSE)>>
        /\ rafs = {Raf(1, "renderFrame", 1, FALSE, FALSE)}
        /\ previewAnimationId = 0
        /\ recorders = <<NewRecorder>> /\ mediaRecorder = 1
  /\ IdleSpectrum /\ IdleScore /\ IdleBars

NextLayers ==
  \/ Composer_addLayer
  \/ Composer_addLayerToTop
  \/ Composer_removeLayer
  \/ Composer_toggleVisible
  \/ Composer_previewDraw
  \/ Composer_renderFrame

SpecLayers == InitLayers /\ [][NextLayers]_vars

(***************************************************************************)
(* Multi-view composer: the two renderers of a layer.  The preview loop    *)
(* calls renderLayerWithAudioData, the capture loop calls                  *)
(* renderLayerWithAudioDataForRecording; a drawing is described by the     *)
(* style branch the renderer took, the kind of data it plotted and the     *)
(* number of bars / points / notes it laid out.                            *)
(***************************************************************************)
MaxWidth == 4        \* largest layer width (in pixels) handed to a renderer

\* the values the settings panel offers for the style setting of a layer type
\* (spectrumStyle, style, colorMap); a type without one has the empty string
StyleOptions ==
  [spectrum |-> {"normal", "center", "circular", "line"},
   waveform |-> {"line", "fill"},
   spectrogram |-> {"viridis"},
   3d |-> {"bars", "circular", "grid"},
   pianoroll |-> {""},
   score |-> {""}]

\* getDefaultSettings(type), reduced to the style setting, barCount and the
\* frequency range
getDefaultSettings(type) ==
  CASE type = "spectrum" -> [style |-> "normal", barCount |-> MaxBarCount,
                             minFreq |-> 20, maxFreq |-> 14400]
    [] type = "waveform" -> [style |-> "line", barCount |-> 0]
    [] type = "spectrogram" -> [style |-> "viridis", barCount |-> 0]
    [] type = "3d" -> [style |-> "bars", barCount |-> MaxBarCount]
    [] OTHER -> [style |-> "", barCount |-> 0]

\* Math.floor(freq * binCount / nyquist), for the frequencies, bin counts and
\* whole nyquist frequencies of the model
binIndex(freq, binCount, nyquist) == (freq * binCount) \div nyquist

\* the bins of the range a spectrum renderer computed; no range otherwise
Drawing(l, w, n, branch, data, points, range) ==
  [layer |-> l, width |-> w, bins |-> n,
   branch |-> branch, data |-> data, points |-> points, range |-> range]

\* switch (layer.type) over renderSpectrumWithAudioData ...
\* renderScoreWithAudioData, with l.settings.style the type's style setting
renderLayerWithAudioData(l, w, n) ==
  CASE l.type = "spectrum" ->
         Drawing(l, w, n,
                 IF l.settings.style = "circular" THEN "circular"
                 ELSE IF l.settings.style = "center" THEN "center"
                 ELSE "normal",
                 "frequency", l.settings.barCount,
                 \* const nyquist = 22050; // Approximate for 44.1kHz sample rate
                 [minIndex |-> binIndex(l.settings.minFreq, n, 22050),
                  maxIndex |-> binIndex(l.settings.maxFreq, n, 22050)])
    [] l.type = "waveform" ->
         \* analyser.getByteTimeDomainData(timeData): frequencyBinCount points
         Drawing(l, w, n, IF l.settings.style = "fill" THEN "fill" ELSE "line",
                 "timeDomain", n, <<>>)
    [] l.type = "spectrogram" ->
         Drawing(l, w, n,
                 IF l.settings.style \in {"hot", "cool", "grayscale"}
                 THEN l.settings.style ELSE "viridis",
                 "frequency", w, <<>>)
    [] l.type = "3d" ->
         Drawing(l, w, n,
                 IF l.settings.style = "circular" THEN "circular"
                 ELSE IF l.settings.style = "grid" THEN "grid"
                 ELSE "bars",
                 "frequency", l.settings.barCount, <<>>)
    [] l.type = "pianoroll" -> Drawing(l, w, n, "notes", "frequency", 12, <<>>)
    [] l.type = "score" -> Drawing(l, w, n, "staff", "frequency", 8, <<>>)

\* switch (layer.type) over renderSpectrumForRecording ...
\* renderScoreForRecording
renderLayerWithAudioDataForRecording(l, w, n) ==
  CASE l.type = "spectrum" ->
         Drawing(l, w, n,
                 IF l.settings.style = "circular" THEN "circular" ELSE "normal",
                 "frequency", l.settings.barCount,
                 \* const nyquist = 22050;
                 [minIndex |-> binIndex(l.settings.minFreq, n, 22050),
                  maxIndex |-> binIndex(l.settings.maxFreq, n, 22050)])
    [] l.type = "waveform" ->
         \* "For recording, we'll use frequency data as a proxy for
         \* waveform": one point per pixel of the layer's width
         Drawing(l, w, n, IF l.settings.style = "fill" THEN "fill" ELSE "line",
                 "frequency", w, <<>>)
    [] l.type = "spectrogram" ->
         Drawing(l, w, n,
                 IF l.settings.style \in {"hot", "cool", "grayscale"}
                 THEN l.settings.style ELSE "viridis",
                 "frequency", w, <<>>)
    [] l.type = "3d" ->
         Drawing(l, w, n, "bars", "frequency", l.settings.barCount, <<>>)
    [] l.type = "pianoroll" -> Drawing(l, w, n, "notes", "frequency", 12, <<>>)
    [] l.type = "score" -> Drawing(l, w, n, "staff", "frequency", 8, <<>>)

\* the settings panel: <select bind:value={layer.settings.spectrumStyle}
\* on:change={() => updateLayerProperty(layer.id, 'settings', layer.settings)}>
Composer_updateLayerProperty ==
  /\ \E st \in StyleOptions[layer.type] :
       layer' = [layer EXCEPT !.settings.style = st]
  /\ UNCHANGED <<settings, barVars, hostVars, pageVars, scoreVars, audioVars,
                 spectrumVars, composerVars, previewDrawing,
                 recordingDrawing, sampleRate, spectrogramVars>>

\* one layer of a preview frame; analyser.fftSize = 2048, and
\* frequencyBinCount is half of it
Composer_renderPreviewLayer ==
  /\ \E w \in 2..MaxWidth :
       previewDrawing' = <<renderLayerWithAudioData(layer, w, 2048 \div 2)>>
  /\ UNCHANGED <<settings, barVars, hostVars, pageVars, scoreVars, audioVars,
                 spectrumVars, composerVars, layer, recordingDrawing,
                 sampleRate, spectrogramVars>>

\* one layer of a capture frame
Composer_renderRecordingLayer ==
  /\ \E w \in 2..MaxWidth :
       recordingDrawing' =
         <<renderLayerWithAudioDataForRecording(layer, w, 2048 \div 2)>>
  /\ UNCHANGED <<settings, barVars, hostVars, pageVars, scoreVars, audioVars,
                 spectrumVars, composerVars, layer, previewDrawing,
                 sampleRate, spectrogramVars>>

\* recordingCanvas.width = parseInt(globalSettings.resolution.split('x')[0]);
\* recordingCanvas.height = parseInt(globalSettings.resolution.split('x')[1]);
recordingCanvas(gs) ==
  [width |-> gs.resolution[1], height |-> gs.resolution[3]]

\* Global Settings panel: <select bind:value={globalSettings.aspectRatio}>
Composer_selectAspectRatio ==
  /\ \E r \in {"16:9", "4:3", "1:1", "21:9"} :
       globalSettings' = [globalSettings EXCEPT !.aspectRatio = r]
  /\ UNCHANGED <<settings, barVars, hostVars, pageVars, scoreVars, audioVars,
                 spectrumVars, selectedFile, layers, nextLayerId,
                 selectedLayer, isPreviewPlaying, progress, audioSource,
                 drawn, loadedFiles, nextFileId, loads, fileInputs,
                 renderVars, spectrogramVars>>

\* Global Settings panel: <select bind:value={globalSettings.resolution}>
Composer_selectResolution ==
  /\ \E res \in {<<1920, "x", 1080>>, <<1280, "x", 720>>,
                 <<2560, "x", 1440>>, <<3840, "x", 2160>>} :
       globalSettings' = [globalSettings EXCEPT !.resolution = res]
  /\ UNCHANGED <<settings, barVars, hostVars, pageVars, scoreVars, audioVars,
                 spectrumVars, selectedFile, layers, nextLayerId,
                 selectedLayer, isPreviewPlaying, progress, audioSource,
                 drawn, loadedFiles, nextFileId, loads, fileInputs,
                 renderVars, spectrogramVars>>

\* project settings: the aspect ratio select's on:change handler
Composer_changeAspectRatio ==
  /\ \E r \in DOMAIN aspectRatios :
       globalSettings' =
         [globalSettings EXCEPT
            !.aspectRatio = r,
            !.resolution = <<aspectRatios[r].width, "x", aspectRatios[r].height>>]
  /\ UNCHANGED <<settings, barVars, hostVars, pageVars, scoreVars, audioVars,
                 spectrumVars, selectedFile, layers, nextLayerId,
                 selectedLayer, isPreviewPlaying, progress, audioSource,
                 drawn, loadedFiles, nextFileId, loads, fileInputs,
                 renderVars, spectrogramVars>>

InitRender ==
  /\ \E type \in DOMAIN StyleOptions :
       layer = [type |-> type, settings |-> getDefaultSettings(type)]
  /\ previewDrawing = <<>>
  /\ recordingDrawing = <<>>
  /\ sampleRate \in {44100, 48000}
  /\ settings = <<>>
  /\ IdleBars /\ IdleHost /\ IdlePage /\ IdleScore /\ IdleAudio /\ IdleSpectrum
  /\ IdleComposer /\ IdleSpectrogram

NextRender ==
  \/ Composer_updateLayerProperty
  \/ Composer_renderPreviewLayer
  \/ Composer_renderRecordingLayer
  \/ Composer_selectAspectRatio
  \/ Composer_selectResolution
  \/ Composer_changeAspectRatio

SpecRender == InitRender /\ [][NextRender]_vars

(***************************************************************************)
(* Spectrogram page (routes/audio/spectrogram): the frame history.  The    *)
(* clock's unit is the period of the processing timer,                     *)
(* (duration * 1000) / maxDataPoints, so that the audio of a processing    *)
(* run lasts maxDataPoints units.                                          *)
(***************************************************************************)
maxDataPoints == 2   \* let maxDataPoints = 1000, scaled down
MaxFrames == 4       \* most callbacks of one preview timer

\* setInterval(collectData, ...): the timer's handle, the function that set
\* it, the source it belongs to, when it was set and how often it has fired
Interval(id, fn, src) == [id |-> id, fn |-> fn, src |-> src, setAt |-> now, fired |-> 0]

\* startPreview up to await audioFile.arrayBuffer(); the Preview button is
\* shown while not previewing and disabled while processing or without a file.
Spectrogram_startPreview ==
  /\ ~isPreviewing
  /\ ~(isProcessing \/ audioFile = NULL)
  /\ Len(contexts) < MaxContexts
  /\ Cardinality(calls) < MaxCalls
  /\ isPreviewing' = TRUE
  /\ spectrogramData' = <<>>
  /\ contexts' = Append(contexts, NewContext)
  /\ audioContext' = Len(contexts) + 1
  /\ analyser' = Len(contexts) + 1
  /\ calls' = calls \cup {Call(FreshCallId, "startPreview", "decodeAudioData", 0, <<>>, NULL)}
  /\ UNCHANGED <<settings, barVars, now, supported, recorders, rafs, files,
                 alerts, mimeType, mediaRecorder, chunks, isProcessing,
                 isConverting, ffmpegInstalled, processingProgress,
                 startTime, previewAnimationId, scoreVars, sources,
                 audioDuration, spectrumVars, composerVars, renderVars,
                 intervals, previewIntervalId>>

\* startPreview after arrayBuffer() and decodeAudioData(): a rejected decode,
\* or a TypeError on the module's audioContext or analyser when stopPreview
\* has set them to null, is caught (alert, isPreviewing = false); otherwise
\* the looping source is created, the timer set and the source started.
Spectrogram_startPreview_decoded ==
  \E c \in calls, ok \in BOOLEAN :
    /\ c.fn = "startPreview"
    /\ calls' = calls \ {c}
    /\ IF ~ok \/ audioContext = 0 \/ analyser = 0
         THEN /\ alerts' = "Error"
              /\ isPreviewing' = FALSE
              /\ UNCHANGED <<sources, previewSource, intervals, previewIntervalId>>
         ELSE /\ sources' = Append(sources,
                    NewSource(audioContext, "startPreview", TRUE, maxDataPoints,
                              "playing", FALSE))
              /\ previewSource' = Len(sources) + 1
              /\ previewIntervalId' = FreshId({i.id : i \in intervals})
              /\ intervals' = intervals \cup
                   {Interval(previewIntervalId', "startPreview", Len(sources) + 1)}
              /\ UNCHANGED <<alerts, isPreviewing>>
    /\ UNCHANGED <<settings, barVars, now, supported, recorders, rafs, files,
                   mimeType, mediaRecorder, chunks, isProcessing,
                   isConverting, ffmpegInstalled, processingProgress,
                   startTime, previewAnimationId, scoreVars, contexts,
                   audioContext, analyser, audioDuration, audioFile,
                   composerVars, renderVars, spectrogramData>>

\* startPreview's collectData, every 50 ms: the frame is pushed and the
\* oldest one shifted out when the history is longer than maxDataPoints.
Spectrogram_previewCollectData ==
  \E i \in intervals :
    /\ i.fn = "startPreview"
    /\ i.fired < MaxFrames
    /\ intervals' = (intervals \ {i}) \cup {[i EXCEPT !.fired = @ + 1]}
    /\ IF analyser = 0 \/ ~isPreviewing
         THEN UNCHANGED spectrogramData
         ELSE LET pushed == Append(spectrogramData, <<i.id, i.fired + 1>>)
              IN  spectrogramData' =
                    IF Len(pushed) > maxDataPoints THEN Tail(pushed) ELSE pushed
    /\ UNCHANGED <<settings, barVars, hostVars, pageVars, scoreVars,
                   audioVars, spectrumVars, composerVars, renderVars,
                   previewIntervalId>>

\* stopPreview; the Stop Preview button is shown while previewing.
Spectrogram_stopPreview ==
  /\ isPreviewing
  /\ isPreviewing' = FALSE
  /\ intervals' = {i \in intervals : i.id # previewIntervalId}
  /\ previewIntervalId' = 0
  /\ sources' = StopSource(sources, previewSource)
  /\ previewSource' = 0
  /\ analyser' = 0
  /\ contexts' = CloseContext(contexts, audioContext)
  /\ audioContext' = 0
  /\ spectrogramData' = <<>>
  /\ UNCHANGED <<settings, barVars, hostVars, mediaRecorder, chunks,
                 isProcessing, isConverting, ffmpegInstalled,
                 processingProgress, startTime, previewAnimationId,
                 scoreVars, audioDuration, audioFile, composerVars,
                 renderVars>>

\* processAudio up to await audioFile.arrayBuffer(); the button is disabled
\* while processing, previewing or without a file.
Spectrogram_processAudio ==
  /\ ~(isProcessing \/ isPreviewing \/ audioFile = NULL)
  /\ Len(contexts) < MaxContexts
  /\ Cardinality(calls) < MaxCalls
  /\ isProcessing' = TRUE
  /\ processingProgress' = 0
  /\ spectrogramData' = <<>>
  /\ contexts' = Append(contexts, NewContext)
  /\ audioContext' = Len(contexts) + 1
  /\ analyser' = Len(contexts) + 1
  /\ calls' = calls \cup {Call(FreshCallId, "processAudio", "decodeAudioData", 0, <<>>, NULL)}
  /\ UNCHANGED <<settings, barVars, now, supported, recorders, rafs, files,
                 alerts, mimeType, mediaRecorder, chunks, isPreviewing,
                 isConverting, ffmpegInstalled, startTime,
                 previewAnimationId, scoreVars, sources, audioDuration,
                 spectrumVars, composerVars, renderVars, intervals,
                 previewIntervalId>>

\* processAudio after arrayBuffer() and decodeAudioData(): a rejected decode
\* is caught (alert, isProcessing = false); otherwise the source is created,
\* the timer set with the period duration / maxDataPoints and the source
\* started.
Spectrogram_processAudio_decoded ==
  \E c \in calls, ok \in BOOLEAN :
    /\ c.fn = "processAudio"
    /\ calls' = calls \ {c}
    /\ IF ~ok
         THEN /\ alerts' = "Error"
              /\ isProcessing' = FALSE
              /\ UNCHANGED <<sources, audioDuration, startTime, intervals>>
         ELSE /\ sources' = Append(sources,
                    NewSource(audioContext, "processAudio", FALSE, maxDataPoints,
                              "playing", FALSE))
              /\ audioDuration' = maxDataPoints
              /\ startTime' = now
              /\ intervals' = intervals \cup
                   {Interval(FreshId({i.id : i \in intervals}), "processAudio",
                             Len(sources) + 1)}
              /\ UNCHANGED <<alerts, isProcessing>>
    /\ UNCHANGED <<settings, barVars, now, supported, recorders, rafs, files,
                   mimeType, mediaRecorder, chunks, isPreviewing,
                   isConverting, ffmpegInstalled, processingProgress,
                   previewAnimationId, scoreVars, contexts, audioContext,
                   analyser, spectrumVars, composerVars, renderVars,
                   spectrogramData, previewIntervalId>>

\* processAudio's collectData, once per period of its timer: the frame is
\* pushed and the progress updated.
Spectrogram_processCollectData ==
  \E i \in intervals :
    /\ i.fn = "processAudio"
    /\ i.fired < now - i.setAt
    /\ intervals' = (intervals \ {i}) \cup {[i EXCEPT !.fired = @ + 1]}
    /\ IF analyser = 0
         THEN UNCHANGED <<spectrogramData, processingProgress>>
         ELSE /\ spectrogramData' = Append(spectrogramData, <<i.id, i.fired + 1>>)
              /\ processingProgress' = Progress(now - startTime, audioDuration)
    /\ UNCHANGED <<settings, barVars, hostVars, mediaRecorder, chunks,
                   isProcessing, isPreviewing, isConverting, ffmpegInstalled,
                   startTime, previewAnimationId, scoreVars, audioVars,
                   spectrumVars, composerVars, renderVars, previewIntervalId>>

\* source.onended of processAudio: the audio has played to its end; the
\* event is delivered at that time or later.
Spectrogram_onended ==
  \E s \in DOMAIN sources :
    /\ sources[s].fn = "processAudio"
    /\ Active(s)
    /\ now >= sources[s].startedAt + sources[s].duration
    /\ intervals' = {i \in intervals : i.src # s}
    /\ processingProgress' = 100
    /\ isProcessing' = FALSE
    /\ contexts' = CloseContext(contexts, audioContext)
    /\ sources' = [sources EXCEPT ![s].state = "ended", ![s].connected = FALSE]
    /\ UNCHANGED <<settings, barVars, hostVars, mediaRecorder, chunks,
                   isPreviewing, isConverting, ffmpegInstalled, startTime,
                   previewAnimationId, scoreVars, audioContext, analyser,
                   audioDuration, spectrumVars, composerVars, renderVars,
                   spectrogramData, previewIntervalId>>

\* The page with a WAV file chosen.
InitSpectrogram ==
  /\ audioFile = "file" /\ previewSource = 0
  /\ spectrogramData = <<>> /\ intervals = {} /\ previewIntervalId = 0
  /\ settings = <<>>
  /\ IdleBars /\ IdleHost /\ IdlePage /\ IdleScore /\ IdleAudio
  /\ IdleComposer /\ IdleRender

NextSpectrogram ==
  \/ Tick
  \/ Spectrogram_startPreview
  \/ Spectrogram_startPreview_decoded
  \/ Spectrogram_previewCollectData
  \/ Spectrogram_stopPreview
  \/ Spectrogram_processAudio
  \/ Spectrogram_processAudio_decoded
  \/ Spectrogram_processCollectData
  \/ Spectrogram_onended

SpecSpectrogram == InitSpectrogram /\ [][NextSpectrogram]_vars

(***************************************************************************)
(* Multi-view composer: editing the layer list.                            *)
(***************************************************************************)

\* handleDrop(event): addLayer(type) with the text/plain of the drop, unless
\* it is empty: the type handleDragStart put there for a palette item, or the
\* text of anything else that was dragged over the page.
Composer_handleDrop ==
  /\ Len(layers) < MaxLayers /\ nextLayerId <= MaxLayerId
  /\ \E type \in {"", "spectrum", "3d", "Hello"} :
       /\ type # ""
       /\ layers' = Append(layers, NewLayer(nextLayerId, type,
                                            calculateDefaultLayerSize(type)))
  /\ nextLayerId' = nextLayerId + 1
  /\ selectedLayer' = nextLayerId
  /\ UNCHANGED <<settings, barVars, hostVars, pageVars, scoreVars, audioVars,
                 spectrumVars, selectedFile, globalSettings,
                 isPreviewPlaying, progress, audioSource, drawn, loadedFiles,
                 nextFileId, loads, fileInputs, renderVars, spectrogramVars>>

\* Layer settings, Width and Height: bind:value={layer.width} with
\* on:input={() => updateLayerProperty(layer.id, 'width', layer.width)}, and
\* the same for height; the inputs are type="number" without min or max,
\* updateLayerProperty stores what it is given (0 here, and a negative number
\* the same way), and the panel is the one of the selected layer.
Composer_inputLayerSize ==
  /\ \E k \in DOMAIN layers, value \in {0, 50} :
       /\ layers[k].id = selectedLayer
       /\ \/ layers' = [layers EXCEPT ![k].width = value]
          \/ layers' = [layers EXCEPT ![k].height = value]
  /\ UNCHANGED <<settings, barVars, hostVars, pageVars, scoreVars, audioVars,
                 spectrumVars, selectedFile, nextLayerId, selectedLayer,
                 globalSettings, isPreviewPlaying, progress, audioSource,
                 drawn, loadedFiles, nextFileId, loads, fileInputs,
                 renderVars, spectrogramVars>>

\* selectLayer(layerId), from the entry of a layer in the layer list
Composer_selectLayer ==
  /\ \E k \in DOMAIN layers : selectedLayer' = layers[k].id
  /\ UNCHANGED <<settings, barVars, hostVars, pageVars, scoreVars, audioVars,
                 spectrumVars, selectedFile, layers, nextLayerId,
                 globalSettings, isPreviewPlaying, progress, audioSource,
                 drawn, loadedFiles, nextFileId, loads, fileInputs,
                 renderVars, spectrogramVars>>

\* selectProjectLayer()
Composer_selectProjectLayer ==
  /\ selectedLayer' = 0
  /\ UNCHANGED <<settings, barVars, hostVars, pageVars, scoreVars, audioVars,
                 spectrumVars, selectedFile, layers, nextLayerId,
                 globalSettings, isPreviewPlaying, progress, audioSource,
                 drawn, loadedFiles, nextFileId, loads, fileInputs,
                 renderVars, spectrogramVars>>

\* handleLayerMouseDown(event, layerId), from the box of a visible layer on
\* the preview, outside its controls: the layer is selected and dragged.
Composer_handleLayerMouseDown ==
  /\ \E k \in DOMAIN layers :
       /\ layers[k].visible
       /\ selectedLayer' = layers[k].id
  /\ UNCHANGED <<settings, barVars, hostVars, pageVars, scoreVars, audioVars,
                 spectrumVars, selectedFile, layers, nextLayerId,
                 globalSettings, isPreviewPlaying, progress, audioSource,
                 drawn, loadedFiles, nextFileId, loads, fileInputs,
                 renderVars, spectrogramVars>>

\* The composer as it is mounted: no file, no layer.
InitEdit ==
  /\ IdleRender /\ IdleSpectrogram
  /\ settings = <<>>
  /\ IdleBars /\ IdleHost /\ IdlePage /\ IdleScore /\ IdleAudio /\ IdleSpectrum
  /\ IdleComposer

NextEdit ==
  \/ Composer_addLayer
  \/ Composer_addLayerToTop
  \/ Composer_removeLayer
  \/ Composer_handleDrop
  \/ Composer_selectLayer
  \/ Composer_selectProjectLayer
  \/ Composer_handleLayerMouseDown

SpecEdit == InitEdit /\ [][NextEdit]_vars

\* The layers' geometry: layers are added, resized in the settings panel while
\* they are selected, and removed.
NextGeometry ==
  \/ Composer_addLayer
  \/ Composer_addLayerToTop
  \/ Composer_removeLayer
  \/ Composer_inputLayerSize

SpecGeometry == InitEdit /\ [][NextGeometry]_vars


(***************************************************************************)
(* Spectrum page and 3D page: the frequency range sliders.  The two pages  *)
(* have the same settings, sliders and handlers (part_000 73-89 is the     *)
(* text of visualizer3d 225-241).                                          *)
(***************************************************************************)
MaxSteps == 6        \* slider steps taken from either end of the slider

\* <input type="range" min="0" max="24000" step="10">: the positions next to
\* the slider's ends and next to the default maxFreq; parseInt of the value
\* of a range input is the position's number
SliderPositions ==
  {10 * k : k \in 0..MaxSteps} \cup {24000 - 10 * k : k \in 0..MaxSteps}
    \cup {14390, 14400, 14410}

\* updateMinFreq storing the slider's value as it is
updateMinFreqUnclamped ==
  /\ \E value \in SliderPositions :
       settings' = [settings EXCEPT !.minFreq = value]
  /\ UNCHANGED <<barVars, hostVars, pageVars, scoreVars, audioVars,
                 spectrumVars, composerVars, renderVars, spectrogramVars>>

\* updateMinFreq(event), oninput of the minFreqRange slider
updateMinFreq ==
  /\ \E value \in SliderPositions :
       settings' = [settings EXCEPT
                      !.minFreq = IF value >= settings.maxFreq
                                    THEN settings.maxFreq - 10
                                    ELSE value]
  /\ UNCHANGED <<barVars, hostVars, pageVars, scoreVars, audioVars,
                 spectrumVars, composerVars, renderVars, spectrogramVars>>

\* updateMaxFreq(event), oninput of the maxFreqRange slider
updateMaxFreq ==
  /\ \E value \in SliderPositions :
       settings' = [settings EXCEPT
                      !.maxFreq = IF value <= settings.minFreq
                                    THEN settings.minFreq + 10
                                    ELSE value]
  /\ UNCHANGED <<barVars, hostVars, pageVars, scoreVars, audioVars,
                 spectrumVars, composerVars, renderVars, spectrogramVars>>

\* let settings = $state({ ..., minFreq: 20, maxFreq: 14400, ... })
InitFreq ==
  /\ settings = [minFreq |-> 20, maxFreq |-> 14400]
  /\ IdleBars /\ IdleHost /\ IdlePage /\ IdleScore /\ IdleAudio /\ IdleSpectrum
  /\ IdleComposer /\ IdleRender /\ IdleSpectrogram

NextFreq == updateMinFreq \/ updateMaxFreq

SpecFreq == InitFreq /\ [][NextFreq]_vars


(***************************************************************************)
(* Multi-view composer: the file list.                                     *)
(***************************************************************************)
MaxFiles == 3        \* files handed over by the file dialog in one run

\* handleFileSelect's input.onchange: loadFileFromHTMLInput(file) up to the
\* await of the metadata.  Every change event brings a File object of its
\* own.  A file that is neither audio nor MIDI is refused; a MIDI file meets
\* no await and is added in the same task: the entry `file-${nextFileId++}`
\* is appended, and the file is selected when the list has one entry now; an
\* audio file waits for loadedmetadata, error or the timeout.
Composer_loadFileFromHTMLInput ==
  /\ fileInputs < MaxFiles
  /\ fileInputs' = fileInputs + 1
  /\ LET file == "File " \o ToString(fileInputs + 1)
     IN \E extension \in {"wav", "mid", "txt"} :
          CASE extension = "txt" ->
                 /\ alerts' = "Unsupported file type"
                 /\ UNCHANGED <<loads, loadedFiles, nextFileId, selectedFile>>
            [] extension = "mid" ->
                 /\ loadedFiles' = Append(loadedFiles,
                      [id |-> "file-" \o ToString(nextFileId),
                       type |-> "midi", file |-> file])
                 /\ nextFileId' = nextFileId + 1
                 /\ selectedFile' = IF Len(loadedFiles') = 1 THEN file
                                    ELSE selectedFile
                 /\ UNCHANGED <<loads, alerts>>
            [] OTHER ->
                 /\ loads' = loads \cup {file}
                 /\ UNCHANGED <<alerts, loadedFiles, nextFileId, selectedFile>>
  /\ UNCHANGED <<settings, barVars, now, supported, recorders, calls, rafs,
                 files, mimeType, pageVars, scoreVars, audioVars,
                 spectrumVars, layers, nextLayerId, selectedLayer,
                 globalSettings, isPreviewPlaying, progress, audioSource,
                 drawn, renderVars, spectrogramVars>>

\* loadFileFromHTMLInput after the await: the promise resolves on
\* loadedmetadata, on error and on the timeout alike, and the entry is
\* appended and selected the same way.
Composer_loadFile_metadata ==
  /\ \E file \in loads :
       /\ loads' = loads \ {file}
       /\ loadedFiles' = Append(loadedFiles,
            [id |-> "file-" \o ToString(nextFileId),
             type |-> "audio", file |-> file])
       /\ nextFileId' = nextFileId + 1
       /\ selectedFile' = IF Len(loadedFiles') = 1 THEN file ELSE selectedFile
  /\ UNCHANGED <<settings, barVars, hostVars, pageVars, scoreVars, audioVars,
                 spectrumVars, layers, nextLayerId, selectedLayer,
                 globalSettings, isPreviewPlaying, progress, audioSource,
                 drawn, fileInputs, renderVars, spectrogramVars>>

\* removeFile without the new selection
Composer_removeFileKeepsSelection ==
  /\ \E k \in DOMAIN loadedFiles :
       loadedFiles' = SelectSeq(loadedFiles, LAMBDA f : f.id # loadedFiles[k].id)
  /\ UNCHANGED <<settings, barVars, hostVars, pageVars, scoreVars, audioVars,
                 spectrumVars, selectedFile, layers, nextLayerId,
                 selectedLayer, globalSettings, isPreviewPlaying, progress,
                 audioSource, drawn, nextFileId, loads, fileInputs,
                 renderVars, spectrogramVars>>

\* removeFile(fileId), from the file list
Composer_removeFile ==
  /\ \E k \in DOMAIN loadedFiles :
       LET fileData == loadedFiles[k]
           rest == SelectSeq(loadedFiles, LAMBDA f : f.id # fileData.id)
       IN /\ loadedFiles' = rest
          /\ selectedFile' =
               IF selectedFile # NULL /\ selectedFile = fileData.file
                 THEN IF Len(rest) > 0 THEN rest[1].file ELSE NULL
                 ELSE selectedFile
  /\ UNCHANGED <<settings, barVars, hostVars, pageVars, scoreVars, audioVars,
                 spectrumVars, layers, nextLayerId, selectedLayer,
                 globalSettings, isPreviewPlaying, progress, audioSource,
                 drawn, nextFileId, loads, fileInputs, renderVars,
                 spectrogramVars>>

\* selectFile(fileId), from the file list
Composer_selectFile ==
  /\ \E k \in DOMAIN loadedFiles : selectedFile' = loadedFiles[k].file
  /\ UNCHANGED <<settings, barVars, hostVars, pageVars, scoreVars, audioVars,
                 spectrumVars, layers, nextLayerId, selectedLayer,
                 globalSettings, isPreviewPlaying, progress, audioSource,
                 drawn, loadedFiles, nextFileId, loads, fileInputs,
                 renderVars, spectrogramVars>>

\* The layer's File select: <select bind:value={layer.assignedFileId}> with
\* the option "" (No file assigned) and one option per loaded file, and
\* on:change={() => assignFileToLayer(layer.id, layer.assignedFileId || '')}
Composer_assignFileToLayer ==
  /\ \E k \in DOMAIN layers,
        fileId \in {""} \cup {loadedFiles[i].id : i \in DOMAIN loadedFiles} :
       layers' = [layers EXCEPT ![k].assignedFileId = fileId]
  /\ UNCHANGED <<settings, barVars, hostVars, pageVars, scoreVars, audioVars,
                 spectrumVars, selectedFile, nextLayerId, selectedLayer,
                 globalSettings, isPreviewPlaying, progress, audioSource,
                 drawn, loadedFiles, nextFileId, loads, fileInputs,
                 renderVars, spectrogramVars>>

\* removeFileFromLayer(layerId), from the button shown {#if layer.assignedFileId}
Composer_removeFileFromLayer ==
  /\ \E k \in DOMAIN layers :
       /\ layers[k].assignedFileId \notin {NULL, ""}
       /\ layers' = [layers EXCEPT ![k].assignedFileId = NULL]
  /\ UNCHANGED <<settings, barVars, hostVars, pageVars, scoreVars, audioVars,
                 spectrumVars, selectedFile, nextLayerId, selectedLayer,
                 globalSettings, isPreviewPlaying, progress, audioSource,
                 drawn, loadedFiles, nextFileId, loads, fileInputs,
                 renderVars, spectrogramVars>>

\* The composer with two layers added and no file loaded.
InitFiles ==
  /\ IdleRender /\ IdleSpectrogram
  /\ settings = <<>>
  /\ IdleBars /\ IdleHost /\ IdlePage /\ IdleScore /\ IdleAudio /\ IdleSpectrum
  /\ selectedFile = NULL
  /\ layers = <<NewLayer(1, "spectrum", calculateDefaultLayerSize("spectrum")),
                NewLayer(2, "waveform", calculateDefaultLayerSize("waveform"))>>
  /\ nextLayerId = 3 /\ selectedLayer = 2
  /\ globalSettings = DefaultGlobalSettings
  /\ isPreviewPlaying = FALSE /\ progress = 0 /\ audioSource = 0
  /\ drawn = NoFrame
  /\ loadedFiles = <<>> /\ nextFileId = 1 /\ loads = {} /\ fileInputs = 0

NextFiles ==
  \/ Composer_loadFileFromHTMLInput
  \/ Composer_loadFile_metadata
  \/ Composer_removeFile
  \/ Composer_selectFile
  \/ Composer_assignFileToLayer
  \/ Composer_removeFileFromLayer

SpecFiles == InitFiles /\ [][NextFiles]_vars


(***************************************************************************)
(* Score page: the pages of the score.                                     *)
(***************************************************************************)

\* Display Settings, Measures per Page: <input type="range" min="2" max="8"
\* bind:value={settings.measuresPerPage}> with oninput regrouping the pages
\* and showing the first one; the input has no disabled attribute.
Score_inputMeasuresPerPage ==
  /\ \E value \in {2, 3, 4, 8} :
       /\ value # settings.measuresPerPage
       /\ settings' = [settings EXCEPT !.measuresPerPage = value]
       /\ IF midiData # NULL
            THEN /\ pages' = ProcessMidiData(midiDuration, value)
                 /\ totalPages' = Len(pages')
                 /\ currentPage' = 0
            ELSE UNCHANGED <<pages, totalPages, currentPage>>
  /\ UNCHANGED <<barVars, hostVars, pageVars, midiFile, midiData,
                 midiDuration, synths, audioVars, spectrumVars, composerVars,
                 renderVars, spectrogramVars>>

\* previousPage(), from the button, which is shown with a file and a page and
\* disabled on the first page, while previewing and while processing
Score_previousPage ==
  /\ midiFile # NULL /\ midiData # NULL /\ totalPages > 0
  /\ ~(currentPage = 0 \/ isPreviewing \/ isProcessing)
  /\ currentPage' = IF currentPage > 0 THEN currentPage - 1 ELSE currentPage
  /\ UNCHANGED <<settings, barVars, hostVars, pageVars, midiFile, midiData,
                 midiDuration, totalPages, pages, synths, audioVars,
                 spectrumVars, composerVars, renderVars, spectrogramVars>>

\* nextPage(), from the button, which is disabled on the last page, while
\* previewing and while processing
Score_nextPage ==
  /\ midiFile # NULL /\ midiData # NULL /\ totalPages > 0
  /\ ~(currentPage >= totalPages - 1 \/ isPreviewing \/ isProcessing)
  /\ currentPage' = IF currentPage < totalPages - 1 THEN currentPage + 1
                    ELSE currentPage
  /\ UNCHANGED <<settings, barVars, hostVars, pageVars, midiFile, midiData,
                 midiDuration, totalPages, pages, synths, audioVars,
                 spectrumVars, composerVars, renderVars, spectrogramVars>>

\* The score page with a file of MaxDuration + 2 measures loaded.
InitPages ==
  /\ IdleRender /\ IdleSpectrogram
  /\ settings = [ exportFormat |-> "mp4", convertAfterRecording |-> TRUE,
                  measuresPerPage |-> 4, autoPageTurn |-> TRUE ]
  /\ now = 0
  /\ supported = MimeTypes
  /\ recorders = <<>>
  /\ calls = {}
  /\ rafs = {}
  /\ files = [p \in AllPaths |-> NoFile]
  /\ alerts = "" /\ mimeType = ""
  /\ IdlePage /\ IdleBars /\ IdleAudio /\ IdleSpectrum /\ IdleComposer
  /\ midiFile = "file" /\ midiData = "midi" /\ midiDuration = MaxDuration + 2
  /\ pages = ProcessMidiData(MaxDuration + 2, 4)
  /\ totalPages = Len(pages)
  /\ currentPage = 0
  /\ synths = 0

NextPages ==
  \/ Tick
  \/ Score_handleFileChange
  \/ Score_fileRead
  \/ Score_inputMeasuresPerPage
  \/ Score_previousPage
  \/ Score_nextPage
  \/ Score_startProcessing
  \/ Score_processingStarted
  \/ Score_animate

SpecPages == InitPages /\ [][NextPages]_vars


(***************************************************************************)
(* Claims about the spectrum bar grouping (specification SpecBars).        *)
(***************************************************************************)

\* C9: the spectrum renderer never divides by zero: for barCount >= 1 and
\* maxIndex > minIndex >= 0, every bar average is computed with a divisor >= 1,
\* also when barCount > maxIndex - minIndex.
C9_DivisorAtLeastOne ==
  (bars # <<>> /\ settings.barCount >= 1 /\ maxIndex > minIndex /\ minIndex >= 0)
    => \A k \in DOMAIN bars : bars[k].divisor >= 1

\* C10: for barCount >= 1 and maxIndex > minIndex >= 0, every index j at which
\* the spectrum renderer reads the frequency data satisfies minIndex <= j < maxIndex.
C10_ReadsWithinRange ==
  (bars # <<>> /\ settings.barCount >= 1 /\ maxIndex > minIndex /\ minIndex >= 0)
    => \A j \in reads : minIndex <= j /\ j < maxIndex

\* C10's case: a draw whose bars read the whole range, up to its last bin.
C10_Witness ==
  /\ bars # <<>>
  /\ settings.barCount >= 2
  /\ maxIndex > minIndex
  /\ reads = minIndex .. (maxIndex - 1)

(***************************************************************************)
(* Claims about the score page (specification SpecScore).                  *)
(***************************************************************************)

\* A capture that has not been finalized: its recorder is recording, or has
\* been stopped and its onstop handler (createVideo) has not completed.
Score_Unfinished(r) ==
  \/ recorders[r].state = "recording"
  \/ recorders[r].stopping
  \/ \E c \in calls : c.fn = "createVideo" /\ c.rec = r

\* C2: at most one capture session exists at a time: no capture is started
\* before the previous capture's finalize handler (createVideo, with its save
\* dialog, file write and conversion) has completed.
C2_OneCaptureSession ==
  \A r1, r2 \in DOMAIN recorders :
    (Score_Unfinished(r1) /\ Score_Unfinished(r2)) => r1 = r2

(***************************************************************************)
(* Claims about the spectrum page (specification SpecSpectrum).            *)
(***************************************************************************)

\* C4: once the captured audio has ended (source.onended has stopped the
\* recorder and disconnected the analyser), the capture render loop reads the
\* analyser no more and schedules no further animation frame: no pending
\* frame of a capture loop was scheduled by a frame that ran after the end.
C4_CaptureLoopEnds ==
  \A r \in rafs : r.fn \in {"captureDraw", "renderFrame"} => ~r.late

\* The messages that surface a capture that could not be started.
StartFailureMessages == {"Error exporting composition"}

\* A capture start that fails: the call awaiting decodeAudioData ends without
\* a recorder having been constructed.
CaptureStartFails(fn) ==
  /\ Len(recorders') = Len(recorders)
  /\ \E c \in calls : c.fn = fn /\ c.pc = "decodeAudioData" /\ c \notin calls'

\* C5: if starting a capture fails (the decode rejects, or no mime type of the
\* fallback list is supported), the failure is surfaced, no recorder is left
\* recording and isProcessing is false again.
C5_FailedStartReturnsToIdle ==
  [][ (CaptureStartFails("processAudio") \/ CaptureStartFails("exportComposition")) =>
        /\ ~isProcessing'
        /\ alerts' \in StartFailureMessages
        /\ \A r \in DOMAIN recorders' : recorders'[r].state # "recording" ]_vars

(***************************************************************************)
(* Claims about the composer (specification SpecComposer).                 *)
(***************************************************************************)

\* C1: in every reachable state at most one audio buffer source is started
\* and connected to an analyser, for every interleaving of startPreview,
\* stopPreview, the capture start and the completions of their awaits.
C1_OneActiveSource ==
  Cardinality({s \in DOMAIN sources : Active(s)}) <= 1

\* C3: after stopPreview has returned, nothing of that preview runs again: no
\* source created for it is playing, and no frame of its draw loop has read
\* the analyser, drawn and scheduled a further frame.
C3_StoppedPreviewIsDead ==
  /\ \A s \in DOMAIN sources : sources[s].stopped => ~Active(s)
  /\ \A r \in rafs : ~(r.fn = "previewDraw" /\ r.stopped /\ r.late)

\* The capture in progress, started by fn, has played its audio to the end:
\* its start has completed and the source it started has ended.
AudioEnded(fn) ==
  /\ isProcessing
  /\ ~\E c \in calls : c.fn = fn
  /\ \E s \in DOMAIN sources :
       /\ sources[s].fn = fn
       /\ sources[s].state = "ended"
       /\ \A t \in DOMAIN sources : sources[t].fn = fn => t <= s

\* C6: from the start of a capture until the page is Idle again the capture
\* progress (progress in the composer, processingProgress on the other
\* pages) never decreases, and once the captured audio has ended it is
\* exactly 100.
C6_ProgressMonotonic ==
  [][ (isProcessing /\ isProcessing') =>
        /\ progress' >= progress
        /\ processingProgress' >= processingProgress
        /\ AudioEnded("exportComposition")' => progress' = 100
        /\ AudioEnded("processAudio")' => processingProgress' = 100 ]_vars

\* The step in which a pending convert_video call fails.
ConversionFails ==
  /\ alerts' = "Conversion failed"
  /\ \E c \in calls : c.pc = "convert_video" /\ c \notin calls'

PaintedAt(id) == CHOOSE k \in DOMAIN drawn.painted : drawn.painted[k] = id

\* C8: layers are composited back-to-front with the first element of the
\* layer list drawn last (topmost): of two visible layers the one earlier in
\* the list is painted later, so a list [A,B,C] is painted C, then B, then A.
C8_FirstLayerTopmost ==
  \A i, j \in DOMAIN drawn.list :
    (i < j /\ drawn.list[i].visible /\ drawn.list[j].visible)
      => PaintedAt(drawn.list[i].id) > PaintedAt(drawn.list[j].id)

(***************************************************************************)
(* Further claims about the spectrum bar grouping (specification SpecBars).*)
(***************************************************************************)

\* C11: the bars partition [minIndex, maxIndex): the ranges
\* [startIndex, endIndex) of bars 0..barCount-1 are adjacent (so pairwise
\* disjoint), the first begins at minIndex, the last ends at maxIndex, and
\* every bin of the range is read by a bar.
C11_BarsPartitionRange ==
  (bars # <<>> /\ settings.barCount >= 1 /\ maxIndex > minIndex /\ minIndex >= 0)
    => /\ bars[1].startIndex = minIndex
       /\ bars[Len(bars)].endIndex = maxIndex
       /\ \A k \in 1..(Len(bars) - 1) : bars[k].endIndex = bars[k + 1].startIndex
       /\ reads = minIndex .. (maxIndex - 1)


(***************************************************************************)
(* Claims about the composer's layer renderers (specification SpecRender). *)
(***************************************************************************)
SameRenderInput ==
  /\ previewDrawing # <<>> /\ recordingDrawing # <<>>
  /\ previewDrawing[1].layer = recordingDrawing[1].layer
  /\ previewDrawing[1].width = recordingDrawing[1].width
  /\ previewDrawing[1].bins = recordingDrawing[1].bins

\* C12: for the same layer (type and settings) and the same frequency data,
\* the capture-path renderer selects the same drawing as the preview-path
\* renderer: the same style branch, the same kind of input data and the same
\* bar / point geometry, for every layer type and style value.
C12_RecordingDrawsAsPreview ==
  SameRenderInput
    => /\ recordingDrawing[1].branch = previewDrawing[1].branch
       /\ recordingDrawing[1].data = previewDrawing[1].data
       /\ recordingDrawing[1].points = previewDrawing[1].points

\* C13: the capture canvas resolution is linked to the aspect ratio: after
\* any sequence of global-settings edits the export width and height are the
\* lookup-table entry of the selected aspect ratio.
C13_ResolutionFollowsAspectRatio ==
  recordingCanvas(globalSettings) = aspectRatios[globalSettings.aspectRatio]

(***************************************************************************)
(* Claims about the recorder's mime type.                                  *)
(***************************************************************************)
FirstSupported ==
  IF "video/webm;codecs=vp8,opus" \in supported THEN "video/webm;codecs=vp8,opus"
  ELSE IF "video/webm" \in supported THEN "video/webm"
  ELSE "video/mp4"

\* C14: on every page that records, the mime type a capture start negotiates
\* is the first entry of 'video/webm;codecs=vp8,opus', 'video/webm',
\* 'video/mp4' that the host supports (when it supports one); on a host that
\* supports only 'video/webm' the result is 'video/webm'.
C14_FirstSupportedMimeType ==
  (mimeType # "" /\ supported \cap MimeTypes # {})
    => mimeType = FirstSupported

(***************************************************************************)
(* Claims about the chunk list and the file written.                       *)
(***************************************************************************)
CapturedChunks(r) == [i \in 1..recorders[r].delivered |-> <<r, i>>]

\* C15: the chunk list is emptied only at capture start and by the finalize
\* handler after it has assembled the blob, never by the stop requester; hence
\* the bytes written to a file are exactly the chunks delivered during that
\* capture, in delivery order.
C15_WrittenBytesAreTheCapture ==
  \A p \in DOMAIN files :
    (files[p].exists /\ ~files[p].converted)
      => \E r \in DOMAIN recorders : files[p].bytes = CapturedChunks(r)

(***************************************************************************)
(* Claims about the end of createVideo / createVideoFile.                  *)
(***************************************************************************)
\* the step in which a createVideo(File) call suspended at save() ends there
SaveCancelled ==
  \E c \in calls :
    /\ c.fn \in {"createVideo", "createVideoFile"} /\ c.pc = "save"
    /\ \A d \in calls' : d.id # c.id

\* the audio context of the latest capture
CaptureContext ==
  LET S == {s \in DOMAIN sources : sources[s].fn \in {"processAudio", "exportComposition"}}
  IN  sources[CHOOSE s \in S : \A t \in S : t <= s].ctx

\* C16: when the save dialog is cancelled the page returns to Idle
\* (isProcessing false), the chunk list is empty and the audio context created
\* for that capture is closed; no file is written and no conversion started.
C16_CancelReleasesCapture ==
  [][SaveCancelled
       => /\ ~isProcessing' /\ chunks' = <<>>
          /\ contexts'[CaptureContext].closed
          /\ files' = files
          /\ \A d \in calls' : d.pc # "convert_video"]_vars

\* the calls that reach invoke('convert_video') in this step
ConversionStarts == {d \in calls' : d.pc = "convert_video" /\ d \notin calls}

\* C17: on every page that records, convert_video is invoked only after the
\* WebM file has been written, and only when auto-convert is enabled, the
\* format is not webm and FFmpeg has been detected; when FFmpeg is not
\* detected no conversion is attempted.
C17_ConversionOnlyWithFFmpeg ==
  [][\A d \in ConversionStarts :
       LET s == IF d.fn = "createVideoFile" THEN globalSettings ELSE settings
       IN  /\ files'[d.path].exists /\ files'[d.path].bytes = d.blob
           /\ s.convertAfterRecording /\ s.exportFormat # "webm"
           /\ ffmpegInstalled]_vars

(***************************************************************************)
(* Claims about the frame loops (specification SpecLayers).                *)
(***************************************************************************)
\* the session a frame callback belongs to is running
SessionRuns(fn) ==
  IF fn = "previewDraw" THEN isPreviewPlaying /\ analyser # 0 /\ ~isProcessing
  ELSE isProcessing

\* C18: an error raised while analysing or drawing inside one preview or
\* capture tick skips only that tick: as long as the session runs, a tick
\* that has run has scheduled the next one.
C18_TickSchedulesNext ==
  [][\A r \in rafs \ rafs' :
       (SessionRuns(r.fn) /\ SessionRuns(r.fn)')
         => \E q \in rafs' \ rafs : q.fn = r.fn]_vars

(***************************************************************************)
(* Claims about the frequency-to-bin mapping (specification SpecRender).   *)
(***************************************************************************)
SpectrumDrawings ==
  {d \in {previewDrawing[i] : i \in DOMAIN previewDrawing}
           \cup {recordingDrawing[i] : i \in DOMAIN recordingDrawing} :
     d.layer.type = "spectrum"}

\* C19: on the preview and on the capture path the spectrum's bin range is
\* minIndex = floor(minFreq * binCount / nyquist) and maxIndex =
\* floor(maxFreq * binCount / nyquist), with nyquist half the audio context's
\* actual sample rate.
C19_IndicesFromActualSampleRate ==
  \A d \in SpectrumDrawings :
    /\ d.range.minIndex = binIndex(d.layer.settings.minFreq, d.bins, sampleRate \div 2)
    /\ d.range.maxIndex = binIndex(d.layer.settings.maxFreq, d.bins, sampleRate \div 2)

(***************************************************************************)
(* Claims about the spectrogram history (specification SpecSpectrogram).   *)
(***************************************************************************)
\* C20: the spectrogram history is a rolling buffer: after any sequence of
\* data-collection ticks, in preview and in processing, it stores at most
\* maxDataPoints frames (the oldest are evicted).
C20_HistoryBounded == Len(spectrogramData) <= maxDataPoints

(***************************************************************************)
(* Claims about the composer's layer list.                                 *)
(***************************************************************************)

\* C21: every layer of the composer's layer list has a width and a height
\* above 0, whatever sequence of addLayer, addLayerToTop, Width / Height
\* inputs and removeLayer built the list.
C21_LayerSizePositive ==
  \A k \in DOMAIN layers : layers[k].width > 0 /\ layers[k].height > 0

\* C22: every layer of the list has a type of the closed set spectrum,
\* waveform, spectrogram, 3d, pianoroll, score, however it was created, a
\* drop on the preview area (handleDrop) included.
C22_LayerTypeClosed ==
  \A k \in DOMAIN layers :
    layers[k].type \in {"spectrum", "waveform", "spectrogram", "3d",
                        "pianoroll", "score"}

\* C27: selectedLayer is null or the id of a layer that is in the list, after
\* any sequence of addLayer, addLayerToTop, selectLayer, selectProjectLayer,
\* handleLayerMouseDown and removeLayer.
C27_SelectedLayerInList ==
  selectedLayer = 0 \/ \E k \in DOMAIN layers : layers[k].id = selectedLayer

\* A layer was removed, and a layer older than the newest one is selected.
C27_Witness ==
  /\ selectedLayer # 0
  /\ nextLayerId > Len(layers) + 1
  /\ selectedLayer < nextLayerId - 1

\* C30: the ids of the layers of the list are pairwise distinct in every
\* reachable state, and an id is never used again after its layer was
\* removed: every id handed out is below nextLayerId, nextLayerId never
\* decreases, and a layer that enters the list has an id that was not below
\* nextLayerId before.
C30_LayerIdsNeverReused ==
  /\ [](/\ \A i, j \in DOMAIN layers : i # j => layers[i].id # layers[j].id
        /\ \A i \in DOMAIN layers : layers[i].id < nextLayerId)
  /\ [][/\ nextLayerId' >= nextLayerId
        /\ \A k \in DOMAIN layers' :
             (\A j \in DOMAIN layers : layers[j].id # layers'[k].id)
               => layers'[k].id >= nextLayerId]_vars

\* Two layers are in the list, one of them added after a removal.
C30_Witness ==
  /\ Len(layers) >= 2
  /\ nextLayerId > Len(layers) + 1
  /\ \E k \in DOMAIN layers : layers[k].id = nextLayerId - 1

(***************************************************************************)
(* Claims about the composer's preview loop.                               *)
(***************************************************************************)
\* C23: a tick of the composer's preview reads one snapshot of the layer
\* list: the frame it leaves is the frame of the list as it is at the tick,
\* every visible layer of it painted once, in order, and no invisible one;
\* an edit of the list (add, remove, property change) between two ticks
\* changes no frame.
C23_TickDrawsSnapshot ==
  [][/\ layers' # layers => drawn' = drawn
     /\ (isPreviewPlaying /\ drawn' # drawn)
          => (drawn' = Frame(layers) /\ layers' = layers)]_vars

\* C24: at most one preview render loop is alive in the composer: after any
\* sequence of startPreview, stopPreview and aspect-ratio changes at most one
\* draw callback is pending, and it is the one previewAnimationId names.
C24_OnePreviewLoop ==
  /\ Cardinality({r \in rafs : r.fn = "previewDraw"}) <= 1
  /\ \A r \in rafs : r.fn = "previewDraw" => r.id = previewAnimationId

(***************************************************************************)
(* Claims about the frequency range (specification SpecFreq).              *)
(***************************************************************************)
\* C25: on the spectrum page and the 3D page, after any sequence of
\* updateMinFreq / updateMaxFreq with slider values 0..24000, starting from
\* minFreq 20 and maxFreq 14400, 0 <= minFreq < maxFreq <= 24000.
C25_FreqRangeOrdered ==
  /\ 0 <= settings.minFreq
  /\ settings.minFreq < settings.maxFreq
  /\ settings.maxFreq <= 24000

\* The min slider was pushed to the top with maxFreq at the top: the value
\* stored is maxFreq - 10.
C25_Witness == settings.minFreq = 23990 /\ settings.maxFreq = 24000

(***************************************************************************)
(* Claims about the composer's file list (specification SpecFiles).        *)
(***************************************************************************)
\* C26: selectedFile is null or the file of an entry of loadedFiles, and it
\* is not null whenever loadedFiles is not empty, after any interleaving of
\* file loads (which await the metadata), selectFile and removeFile.
C26_SelectedFileLoaded ==
  /\ selectedFile # NULL
       => \E i \in DOMAIN loadedFiles : loadedFiles[i].file = selectedFile
  /\ loadedFiles # <<>> => selectedFile # NULL

\* The selected file was removed while another load was waiting for its
\* metadata, and the list has an entry again.
C26_Witness ==
  /\ nextFileId > Len(loadedFiles) + 1
  /\ Len(loadedFiles) >= 1
  /\ selectedFile # NULL /\ selectedFile # loadedFiles[1].file

\* C28: the assignedFileId of every layer is undefined or the id of a file
\* that is in loadedFiles, after any sequence of assignFileToLayer,
\* removeFileFromLayer and removeFile.  The empty string the option "No file
\* assigned" stores is read as no assignment, as the page reads it.
C28_AssignedFileLoaded ==
  \A k \in DOMAIN layers :
    \/ layers[k].assignedFileId \in {NULL, ""}
    \/ \E i \in DOMAIN loadedFiles : loadedFiles[i].id = layers[k].assignedFileId

(***************************************************************************)
(* Claims about the score's pages (specification SpecPages).               *)
(***************************************************************************)
\* C29: on the score page, after any sequence of file loads, measuresPerPage
\* changes, previousPage, nextPage and automatic page turns,
\* 0 <= currentPage <= max(totalPages - 1, 0); and while one preview or
\* capture runs currentPage never decreases and advances by at most one page
\* per step.
C29_PageInRangeAndForward ==
  /\ [](/\ 0 <= currentPage
        /\ currentPage <= (IF totalPages - 1 > 0 THEN totalPages - 1 ELSE 0))
  /\ [][((isProcessing \/ isPreviewing) /\ (isProcessing' \/ isPreviewing'))
          => (currentPage <= currentPage' /\ currentPage' <= currentPage + 1)]_vars

=============================================================================
